---- MODULE Spec2Model ----
(***************************************************************************)
(* A model of the light-curve utilities of alderaan (src/alderaan/         *)
(* detrend.py) and of the detrending stages of the pipeline script         *)
(* (src/bin/detrend_and_estimate_ttvs.py).                                 *)
(*                                                                         *)
(* Arrays are sequences (1-based); an index that the code stores in an     *)
(* array (a gap location) keeps its Python value (0-based), so the slice   *)
(* a[g:h] is the elements g+1 .. min(h, len(a)).                           *)
(* Times are integers in units of one cadence.                             *)
(***************************************************************************)
EXTENDS Integers, Sequences, FiniteSets, TLC

VARIABLES
    pc,               \* position of the driver: which call is next / has returned
    lc,               \* the LiteCurve an operation works on
    break_tolerance,  \* argument of identify_gaps / filter_ringing / flatten_with_gp
    jump_tolerance,   \* argument of identify_gaps
    gaps,             \* value returned by identify_gaps
    tts,              \* transit times of one planet (argument of make_transitmask)
    masksize,         \* half-width of the mask window (argument of make_transitmask)
    transitmask,      \* value returned by make_transitmask
    kterm,            \* argument of the current / last call of flatten_with_gp
    correct_ramp,     \* argument of the current / last call of flatten_with_gp
    full_trend,       \* the trend computed by the last call of flatten_with_gp
    lc_before,        \* the light curve as it was given to the detrender
    trend_map,        \* flatten_with_gp: the model built and the optimiser calls made
    loop,             \* which detrending loop of the script runs
    nquarters,        \* len(lc_data) / len(sc_data): light curves of the loop
    qi,               \* number of light curves the loop has taken up
    calls,            \* calls of flatten_with_gp made for the current light curve
    done,             \* for each light curve the loop has passed on: normalized?
    fring,            \* ringing frequencies (argument of filter_ringing)
    ring_segs,        \* filter_ringing: the arrays of each segment
    flux_filtered,    \* value returned by filter_ringing
    heap,             \* the LiteCurve objects: heap[id] is the __dict__ of object id
    heap_before,      \* the objects as they were when stitch was called
    litecurves,       \* argument of stitch: a list of object ids
    combo,            \* value returned by stitch: an object id
    MISSION,          \* the mission name given on the command line
    target_dict,      \* the rows of the input catalog that belong to the target
    exception,        \* the exception that ended the script, if any
    stages_run,       \* the stages of the script that have run, in order
    TIME_END,         \* end of the observation baseline
    planets,          \* the Planet objects, in order of period
    shape_transit_times,  \* shape_transit_times[npl]: one time per good transit
    p_overlap,        \* p.overlap[p.quality] of the planet
    slide_transit_times,  \* slide_transit_times[npl] (tts while the loop runs)
    slide_error,      \* slide_error[npl] (err while the loop runs)
    slide_fits,       \* the slide times and errors as the fit loop left them
    fit_log,          \* what the fit of the last transit fitted found
    refit,            \* refit[npl]
    indep_transit_times,  \* indep_transit_times[npl]
    indep_error,      \* indep_error[npl]
    transit_inds,     \* transit_inds[npl]
    pfit,             \* the line through the independent times of the planet
    full_indep_ephemeris,  \* full_indep_ephemeris[npl]
    candidates,       \* the candidate models fitted so far, with their residuals
    aiclist,          \* the AIC of each candidate
    fgplist,          \* the foreground probabilities under each candidate
    outlist,          \* the outlier flags under each candidate
    omc_refit,        \* the model fitted again after the choice
    full_quick_transit_times,  \* full_quick_transit_times[npl]
    quick_transit_times,  \* quick_transit_times[npl]
    outlier_prob,     \* outlier_prob[npl]
    outlier_class,    \* outlier_class[npl]
    t_,               \* the times of the cadences of the quarter
    f_,               \* the flux of the cadences of the quarter
    res_i,            \* res_i[j]
    res_q,            \* res_q[j]
    bad_lc,           \* bad_lc
    lc_raw_collection,  \* the raw long cadence quarters
    lc_data,          \* the list of light curves of the detrending pass
    all_dtype,        \* all_dtype[q]
    good_cadno_lc,    \* good_cadno_lc
    indep_freqs,      \* indep_freqs[npl], in units of 1/FreqUnit per day
    indep_faps,       \* indep_faps[npl], in percent
    ephem_span,       \* indep_ephemeris[npl].max() - indep_ephemeris[npl].min()
    omc_freqs,        \* omc_freqs[npl]: <<>> for None, <<f>> for the frequency f
    omc_pers,         \* omc_pers[npl], a fraction <<numerator, denominator>> of days
    TIME_START,       \* start of the observation baseline
    EPOCHS,           \* EPOCHS[npl]
    PERIODS,          \* PERIODS[npl]
    CATALOG_EPOCHS,   \* EPOCHS as read from the catalog
    holczer_pfit,     \* pfit of line 467, <<epoch, period>>
    hepoch,           \* hepoch of lines 472-480
    map_dtype,        \* map_dtype[q]
    oversample,       \* oversample[q]
    texp,             \* texp[q]
    shape_model,      \* the arguments of get_light_curve in shape_model, by j
    indep_model       \* the arguments of get_light_curve in indep_model, by j

gapVars == <<lc, break_tolerance, jump_tolerance, gaps>>

maskVars == <<tts, masksize, transitmask>>

flatVars == <<kterm, correct_ramp, full_trend, lc_before, trend_map>>

loopVars == <<loop, nquarters, qi, calls, done>>

ringVars == <<fring, ring_segs, flux_filtered>>

stitchVars == <<heap, heap_before, litecurves, combo>>

catVars == <<MISSION, target_dict, exception, stages_run>>

planVars == <<TIME_END, planets>>

slideVars == <<shape_transit_times, p_overlap, slide_transit_times,
               slide_error, slide_fits, fit_log, refit, indep_transit_times,
               indep_error>>

quickVars == <<transit_inds, pfit, full_indep_ephemeris, candidates, aiclist,
               fgplist, outlist, omc_refit, full_quick_transit_times,
               quick_transit_times, outlier_prob, outlier_class>>

outVars == <<t_, f_, res_i, res_q, bad_lc>>

resetVars == <<lc_raw_collection, lc_data, all_dtype, good_cadno_lc>>

matchVars == <<indep_freqs, indep_faps, ephem_span, omc_freqs, omc_pers>>

epochVars == <<TIME_START, EPOCHS, PERIODS, CATALOG_EPOCHS, holczer_pfit, hepoch>>

expVars == <<map_dtype, oversample, texp, shape_model, indep_model>>

tailVars == <<matchVars, epochVars, expVars>>

restVars == <<resetVars, tailVars>>

ttvVars == <<catVars, planVars, slideVars, quickVars, outVars, restVars>>

vars == <<pc, gapVars, maskVars, flatVars, loopVars, ringVars, stitchVars, ttvVars>>

(***************************************************************************)
(* Bounds of the model.                                                    *)
(***************************************************************************)
MaxN == 5          \* cadences in a light curve
MaxTol == 4        \* break_tolerance ranges over 1..MaxTol
MaxMaskN == 3      \* cadences of a light curve given to make_transitmask
MaxTts == 2        \* transit times of a planet
MaxMaskSize == 2   \* masksize ranges over 1..MaxMaskSize
MaxFlatN == 3      \* cadences of a light curve given to flatten_with_gp alone
MaxLoopN == 2      \* cadences of a light curve in a detrending loop
MaxQuarters == 2   \* light curves (quarters) in a detrending loop
MaxRingN == 4      \* cadences of a light curve given to filter_ringing
MaxRing == 1       \* ringing frequencies given to filter_ringing
MaxCurves == 3     \* light curves in the list given to stitch
MaxStitchN == 2    \* cadences of a light curve given to stitch

FluxVals == {0, 10}     \* flux values of a raw light curve
JumpTols == {3, 5}      \* values of the jump_tolerance argument

None == "None"

(***************************************************************************)
(* Floating point values: a column of the catalog, a transit time or an    *)
(* uncertainty may be NaN.  NaN compares unequal to everything and every   *)
(* ordering test on it is False.                                           *)
(***************************************************************************)
NaN == -1000000

isnan(x) == x = NaN

np_eq(a, b) == ~isnan(a) /\ ~isnan(b) /\ a = b

np_lt(a, b) == ~isnan(a) /\ ~isnan(b) /\ a < b

np_gt(a, b) == ~isnan(a) /\ ~isnan(b) /\ a > b

(***************************************************************************)
(* numpy helpers                                                           *)
(***************************************************************************)
Abs(x) == IF x < 0 THEN -x ELSE x

Min2(a, b) == IF a < b THEN a ELSE b

Max2(a, b) == IF a > b THEN a ELSE b

RECURSIVE SumSeq(_)
SumSeq(s) == IF s = <<>> THEN 0 ELSE Head(s) + SumSeq(Tail(s))

Reverse(s) == [i \in 1..Len(s) |-> s[Len(s) + 1 - i]]

\* np.sort(np.unique(x)) of a set of integers: the ascending sequence
RECURSIVE np_unique(_)
np_unique(S) ==
    IF S = {} THEN <<>>
    ELSE LET m == CHOOSE x \in S : \A y \in S : x <= y
         IN  <<m>> \o np_unique(S \ {m})

\* insertion of one value into an ascending sequence
RECURSIVE Insert(_, _)
Insert(x, s) ==
    IF s = <<>> THEN <<x>>
    ELSE IF x <= Head(s) THEN <<x>> \o s
    ELSE <<Head(s)>> \o Insert(x, Tail(s))

RECURSIVE np_sort(_)
np_sort(s) == IF s = <<>> THEN <<>> ELSE Insert(Head(s), np_sort(Tail(s)))

\* twice np.median(s): the middle element, or the mean of the two middle ones
median2(s) ==
    LET t == np_sort(s)
        n == Len(t)
    IN  IF n % 2 = 1 THEN 2 * t[(n + 1) \div 2]
        ELSE t[n \div 2] + t[n \div 2 + 1]

\* x[1:] - x[:-1]
np_diff(x) == [i \in 1..(Len(x) - 1) |-> x[i + 1] - x[i]]

\* x[a:b] for 0 <= a, with Python's clamping of b to len(x)
Slice(x, a, b) == SubSeq(x, a + 1, Min2(b, Len(x)))

(***************************************************************************)
(* identify_gaps (detrend.py 59-103)                                       *)
(***************************************************************************)
\* line 78: np.atleast_2d(lc.mask, 0) is called with two arguments and so
\* returns a Python list of two arrays; a list compared with the int 0 is
\* False, and np.sum(False) is 0 whatever lc.mask holds.
gap_mask(mask) ==
    LET atleast_2d == <<mask, <<0>>>>
        eq0 == FALSE
    IN  IF eq0 THEN Len(atleast_2d) ELSE 0

\* lines 81-82: cadno differences, padded in front with 1
breaks(cadno) == <<1>> \o np_diff(cadno)

\* line 83: np.where(breaks > break_tolerance)[0]
break_locs_unpadded_off(cadno, tol) ==
    {i - 1 : i \in {j \in 1..Len(breaks(cadno)) : breaks(cadno)[j] > tol + 1}}

break_locs_unpadded(cadno, tol) ==
    {i - 1 : i \in {j \in 1..Len(breaks(cadno)) : breaks(cadno)[j] > tol}}

\* line 84: padded with 0 in front and len(breaks)+1 behind
break_locs_end_len(cadno, tol) ==
    {0} \cup break_locs_unpadded(cadno, tol) \cup {Len(breaks(cadno))}

break_locs(cadno, tol) ==
    {0} \cup break_locs_unpadded(cadno, tol) \cup {Len(breaks(cadno)) + 1}

\* lines 87-88: flux differences, padded in front with 0
jumps(flux) == <<0>> \o np_diff(flux)

\* astropy.stats.mad_std(x) = 1.4826... * median(|x - median(x)|).  With
\* dev2 = 2*|x - median| and m4 = 4*MAD (both integers), the test
\* |x - median| / mad_std > sigma is  2*dev2 > sigma*1.4826*m4; for MAD = 0 the
\* quotient is inf (true) where dev2 > 0 and nan (false) where dev2 = 0,
\* which the same inequality gives.
MadScale == 14826     \* 1.4826 * MadUnit
MadUnit == 10000

dev2(x) == [i \in 1..Len(x) |-> Abs(2 * x[i] - median2(x))]

exceeds(x, i, sigma) ==
    2 * MadUnit * dev2(x)[i] > sigma * MadScale * median2(dev2(x))

\* line 89: the threshold is the literal 5.0
JumpSigma == 5

big_jump(flux) == [i \in 1..Len(flux) |-> exceeds(jumps(flux), i, JumpSigma)]

\* line 90: np.where(mask*big_jump)[0]
jump_locs(l) ==
    {i - 1 : i \in {j \in 1..Len(l.flux) :
                  gap_mask(l.mask) * (IF big_jump(l.flux)[j] THEN 1 ELSE 0) # 0}}

\* lines 95-99: flag boundaries closer than break_tolerance to the one before;
\* when the last one is flagged, keep it and flag the one before it instead
gap_bad(g, tol) ==
    LET bad == [j \in 1..Len(g) |-> IF j = 1 THEN FALSE ELSE g[j] - g[j - 1] < tol]
        n == Len(g)
    IN  IF bad[n]
        THEN [j \in 1..n |-> IF j = n THEN FALSE ELSE IF j = n - 1 THEN TRUE ELSE bad[j]]
        ELSE bad

\* gaps[~bad]
RECURSIVE Compress(_, _)
Compress(g, bad) ==
    IF g = <<>> THEN <<>>
    ELSE (IF Head(bad) THEN <<>> ELSE <<Head(g)>>) \o Compress(Tail(g), Tail(bad))

identify_gaps(l, tol, jtol) ==
    LET g == np_unique(break_locs(l.cadno, tol) \cup jump_locs(l))
    IN  Compress(g, gap_bad(g, tol))

(***************************************************************************)
(* make_transitmask (detrend.py 30-56)                                     *)
(***************************************************************************)
RECURSIVE np_min(_)
np_min(x) == IF Len(x) = 1 THEN x[1] ELSE Min2(Head(x), np_min(Tail(x)))

RECURSIVE np_max(_)
np_max(x) == IF Len(x) = 1 THEN x[1] ELSE Max2(Head(x), np_max(Tail(x)))

\* line 50: tts[(tts >= time.min())*(tts <= time.max())]
tts_here(time, t) ==
    SelectSeq(t, LAMBDA t0 : t0 >= np_min(time) /\ t0 <= np_max(time))

\* line 53: np.abs(time-t0) < masksize
neartransit_le(time, t0, size) == [i \in 1..Len(time) |-> Abs(time[i] - t0) <= size]

neartransit(time, t0, size) == [i \in 1..Len(time) |-> Abs(time[i] - t0) < size]

\* lines 52-54: the loop over tts_here; += on boolean arrays is the logical or
RECURSIVE mask_loop(_, _, _, _)
mask_loop(acc, time, t, size) ==
    IF t = <<>> THEN acc
    ELSE mask_loop([i \in 1..Len(time) |-> acc[i] \/ neartransit(time, Head(t), size)[i]],
                   time, Tail(t), size)

make_transitmask(time, t, size) ==
    mask_loop([i \in 1..Len(time) |-> FALSE], time, tts_here(time, t), size)

(***************************************************************************)
(* flatten_with_gp (detrend.py 106-266)                                    *)
(***************************************************************************)
\* x[~mask]
Unmasked(x, mask) == Compress(x, mask)

\* lines 139-140: identify_gaps with the default jump_tolerance; gaps[-1] -= 1
flatten_gaps(l, tol) ==
    LET g == identify_gaps(l, tol, JumpSigma)
    IN  [j \in 1..Len(g) |-> IF j = Len(g) THEN g[j] - 1 ELSE g[j]]

\* line 145: gaps_ = [np.sum(inds_ < g) for g in gaps], inds_ the unmasked indices
gaps_unmasked(l, g) ==
    [j \in 1..Len(g) |->
        Cardinality({i \in 1..Len(l.mask) : ~l.mask[i] /\ i - 1 < g[j]})]

\* lines 150-155: seg = zeros(n); for i in range(nseg): seg[g[i]:g[i+1]] = i
RECURSIVE seg_loop(_, _, _)
seg_loop(sg, g, i) ==
    IF i >= Len(g) - 1 THEN sg
    ELSE seg_loop([p \in 1..Len(sg) |->
                      IF g[i + 1] <= p - 1 /\ p - 1 < g[i + 2] THEN i ELSE sg[p]],
                  g, i + 1)

segments(n, g) == seg_loop([p \in 1..n |-> 0], g, 0)

\* len(np.unique(_s))
n_unique(sg) == Cardinality({sg[p] : p \in 1..Len(sg)})

\* exp(-(t - t0)/tau) on the grid of cadences: 1 at the start of the
\* segment, decayed to 0 one cadence later
ramp_decay(t, t0) == IF t = t0 THEN 1 ELSE 0

\* lines 159-175: mean_fxn raises when flux0[i] does not exist or, with the
\* ramp, when no cadence carries the label i (min of an empty array)
mean_fxn_raises(t, sg, ns, ramp) ==
    \/ n_unique(sg) > ns
    \/ ramp /\ \E i \in 0..(n_unique(sg) - 1) : \A p \in 1..Len(sg) : sg[p] # i

mean_fxn(t, sg, flux0, ramp_amp, ramp) ==
    [p \in 1..Len(t) |->
        SumSeq([k \in 1..n_unique(sg) |->
            IF sg[p] # k - 1 THEN 0
            ELSE IF ~ramp THEN flux0[k]
            ELSE LET t0 == np_min(Unmasked(t, [q \in 1..Len(t) |-> sg[q] # k - 1]))
                 IN  flux0[k] * (1 + ramp_amp[k] * ramp_decay(t[p], t0))])]

\* values the optimiser (pmx.optimize, a black box) may return
Flux0Vals == {1, 2}
RampAmpVals == {0, 1}

\* gp.predict at lc.time: no excursion, or a unit excursion at one cadence
GpPredictions(n) == {[p \in 1..n |-> IF p = b THEN 1 ELSE 0] : b \in 0..n}

trend_maps(n, ns, ramp) ==
    [flux0 : [1..ns -> Flux0Vals],
     ramp_amp : IF ramp THEN [1..ns -> RampAmpVals] ELSE {[k \in 1..ns |-> 0]},
     gp : GpPredictions(n)]

\* line 258: gp.predict(flux_ - mean_, lc.time) + full_mean_pred
trend_of(l, sg, tm, ramp) ==
    LET full_mean_pred == mean_fxn(l.time, sg, tm.flux0, tm.ramp_amp, ramp)
    IN  [p \in 1..Len(l.time) |-> tm.gp[p] + full_mean_pred[p]]

\* lines 260-261: lc.flux /= full_trend; lc.error /= full_trend.  Raw fluxes
\* and errors are multiples of FluxUnit, which every trend value divides.
normalize_flux_only(l, trend) ==
    [l EXCEPT !.flux = [p \in 1..Len(l.flux) |-> l.flux[p] \div trend[p]]]

normalize(l, trend) ==
    [l EXCEPT !.flux = [p \in 1..Len(l.flux) |-> l.flux[p] \div trend[p]],
              !.error = [p \in 1..Len(l.error) |-> l.error[p] \div trend[p]]]

\* the outcomes of one call: an exception (any of the periodogram, model
\* construction and optimiser calls may raise), or the normalized light curve
\* trend_map and the model before flatten_with_gp has built them
NoTrendMap ==
    [calls |-> <<>>, flux0 |-> <<>>, ramp_amp |-> <<>>, mean_ |-> <<>>,
     seg |-> <<>>, seg_ |-> <<>>]

\* the free variables of trend_model (lines 181-207)
free_vars(kt, ramp) ==
    {"log_sigma", "logP", "log_Q0", "flux0", "log_yvar"}
        \cup (IF kt = "RotationTerm" THEN {"log_dQ", "mix"} ELSE {})
        \cup (IF ramp THEN {"ramp_amp", "log_tau"} ELSE {})

\* range(2) whatever correct_ramp is
optimize_rounds_two(ramp) == 2

\* line 229: range(1 + correct_ramp)
optimize_rounds(ramp) == IF ramp THEN 2 ELSE 1

\* lines 231-236: the calls of one pass of the loop
optimize_round(kt, ramp) ==
    (IF kt = "RotationTerm"
        THEN <<{"log_yvar", "flux0", "sigma", "P", "log_Q0", "log_dQ", "mix"}>>
        ELSE <<>>)
    \o (IF kt = "SHOTerm" THEN <<{"log_yvar", "flux0", "sigma", "P", "log_Q0"}>> ELSE <<>>)
    \o (IF ramp THEN <<{"log_yvar", "flux0", "ramp_amp", "log_tau"}>> ELSE <<>>)

RECURSIVE optimize_loop(_, _, _)
optimize_loop(kt, ramp, rounds) ==
    IF rounds = 0 THEN <<>>
    ELSE optimize_round(kt, ramp) \o optimize_loop(kt, ramp, rounds - 1)

\* lines 224-238: the vars of every call of pmx.optimize, in order; the last
\* call names no vars and optimises every free variable
optimize_calls(kt, ramp) ==
    <<{"flux0"}, {"flux0", "log_yvar"}>>
        \o optimize_loop(kt, ramp, optimize_rounds(ramp))
        \o <<free_vars(kt, ramp)>>

\* the exception leaves after lc.flux was divided by a trend
FlattenRaised_after_divide(l) ==
    [raised |-> TRUE, lc |-> [l EXCEPT !.flux = [p \in 1..Len(l.flux) |-> l.flux[p] \div 2]],
     full_trend |-> <<>>, trend_map |-> NoTrendMap]

FlattenRaised(l) ==
    [raised |-> TRUE, lc |-> l, full_trend |-> <<>>, trend_map |-> NoTrendMap]

\* an exception raised by the k-th call of pmx.optimize
FlattenRaisedAt(l, kt, ramp) ==
    {[FlattenRaised(l) EXCEPT !.trend_map.calls = SubSeq(optimize_calls(kt, ramp), 1, k)] :
        k \in 1..Len(optimize_calls(kt, ramp))}

FlattenOutcomes(l, tol, kt, ramp) ==
    IF kt \notin {"RotationTerm", "SHOTerm"} THEN {FlattenRaised(l)}
    ELSE
    LET g == flatten_gaps(l, tol)
        ns == Len(g) - 1
        sg == segments(Len(l.time), g)
        time_ == Unmasked(l.time, l.mask)
        sg_ == segments(Len(time_), gaps_unmasked(l, g))
        built == /\ ~mean_fxn_raises(time_, sg_, ns, ramp)
                 /\ ~mean_fxn_raises(l.time, sg, ns, ramp)
    IN  {FlattenRaised(l)} \cup
        (IF ~built THEN {}
         ELSE FlattenRaisedAt(l, kt, ramp) \cup
              {[raised |-> FALSE,
                lc |-> normalize(l, trend_of(l, sg, tm, ramp)),
                full_trend |-> trend_of(l, sg, tm, ramp),
                trend_map |-> [calls |-> optimize_calls(kt, ramp),
                               flux0 |-> tm.flux0, ramp_amp |-> tm.ramp_amp,
                               mean_ |-> mean_fxn(time_, sg_, tm.flux0, tm.ramp_amp, ramp),
                               seg |-> sg, seg_ |-> sg_]] :
                   tm \in trend_maps(Len(l.time), ns, ramp)})

(***************************************************************************)
(* filter_ringing (detrend.py 269-333)                                     *)
(***************************************************************************)
\* sig.filtfilt (a black box): the input plus an edge transient, none, at
\* the first sample or at the last sample
Transients(n) ==
    {[p \in 1..n |-> 0], [p \in 1..n |-> IF p = 1 THEN 1 ELSE 0],
     [p \in 1..n |-> IF p = n THEN 1 ELSE 0]}

filtfilt(x) == {[p \in 1..Len(x) |-> x[p] + d[p]] : d \in Transients(Len(x))}

\* lines 324-327: for every ringing frequency, f_fwd_back is filtered as it
\* is and f_back_fwd reversed, filtered and reversed again
RECURSIVE notch_loop(_, _, _)
notch_loop(f_fwd_back, f_back_fwd, fr) ==
    IF fr = <<>> THEN {<<f_fwd_back, f_back_fwd>>}
    ELSE UNION {notch_loop(F, Reverse(y), Tail(fr)) :
                   F \in filtfilt(f_fwd_back), y \in filtfilt(Reverse(f_back_fwd))}

\* line 322: np.linspace(0,1,n) is f_ramp_num/(n-1)
f_ramp_num(n) == [p \in 1..n |-> p - 1]

\* line 329: f_filt = f_fwd_back*f_ramp + f_fwd_back*f_ramp[::-1]
f_filt_of(f_fwd_back, f_back_fwd) ==
    LET n == Len(f_fwd_back)
        w == f_ramp_num(n)
    IN  [p \in 1..n |->
            (f_fwd_back[p] * w[p] + f_fwd_back[p] * Reverse(w)[p]) \div (n - 1)]

\* lines 307-314: the cadence numbers of the evenly sampled segment and the
\* flags of those that were observed
data_exists_of(c) ==
    [p \in 1..(c[Len(c)] - c[1] + 1) |-> \E k \in 1..Len(c) : c[k] = c[1] + p - 1]

\* lines 316-317: observed fluxes in their places, the fill value elsewhere
f_interp_of(f, exists, fill) ==
    [p \in 1..Len(exists) |->
        IF exists[p] THEN f[Cardinality({q \in 1..p : exists[q]})] ELSE fill]

\* lines 307-308 raise on a segment of fewer than two cadences (c[-1] of an
\* empty array, np.min of an empty difference)
segment_raises(l, a, b) == Len(Slice(l.cadno, a, b)) < 2

\* the body of the loop over segments (lines 299-331) for the slice a:b; the
\* draw of np.random.normal is one of the fluxes of the segment
segment_outcomes(l, a, b, fr) ==
    LET f == Slice(l.flux, a, b)
        c == Slice(l.cadno, a, b)
        exists == data_exists_of(c)
    IN  UNION {
          {[data_exists |-> exists, f_fwd_back |-> FB[1], f_back_fwd |-> FB[2],
            f_filt |-> f_filt_of(FB[1], FB[2]),
            out |-> Compress(f_filt_of(FB[1], FB[2]), [p \in 1..Len(exists) |-> ~exists[p]])] :
              FB \in notch_loop(f_interp_of(f, exists, fill), f_interp_of(f, exists, fill), fr)} :
          fill \in {f[k] : k \in 1..Len(f)}}

RECURSIVE segments_outcomes(_, _, _, _)
segments_outcomes(l, g, i, fr) ==
    IF i >= Len(g) THEN {<<>>}
    ELSE {<<x>> \o rest : x \in segment_outcomes(l, g[i], g[i + 1], fr),
                          rest \in segments_outcomes(l, g, i + 1, fr)}

RECURSIVE np_hstack(_)
np_hstack(arrays) == IF arrays = <<>> THEN <<>> ELSE Head(arrays) \o np_hstack(Tail(arrays))

RingRaised == [raised |-> TRUE, segs |-> <<>>, flux_filtered |-> <<>>]

\* np.hstack of an empty list raises (line 333)
filter_ringing(l, tol, fr) ==
    LET g == identify_gaps(l, tol, JumpSigma)
    IN  IF Len(g) < 2 \/ \E i \in 1..(Len(g) - 1) : segment_raises(l, g[i], g[i + 1])
        THEN {RingRaised}
        ELSE {[raised |-> FALSE, segs |-> ss,
               flux_filtered |-> np_hstack([i \in 1..Len(ss) |-> ss[i].out])] :
                  ss \in segments_outcomes(l, g, 1, fr)}

(***************************************************************************)
(* stitch (detrend.py 336-347)                                             *)
(***************************************************************************)
\* An object is its __dict__: a function from attribute names to values; a
\* value is an ndarray with its data, or something else (None).
ndarray(data) == [ndarray |-> TRUE, data |-> data]

NoneValue == [ndarray |-> FALSE, data |-> <<>>]

\* line 340: deepcopy makes a new object with copies of the attributes
no_deepcopy(h, id) == [heap |-> h, id |-> id]

deepcopy(h, id) == [heap |-> Append(h, h[id]), id |-> Len(h) + 1]

\* np.atleast_1d of an argument of np.hstack: None becomes the array [None]
atleast_1d(v) == IF v.ndarray THEN v.data ELSE <<None>>

\* lines 343-345: every attribute of combo that is an ndarray is replaced by
\* np.hstack of it and the attribute of litecurves[i]
stitch_one(c, other) ==
    [k \in DOMAIN c |->
        IF c[k].ndarray THEN ndarray(c[k].data \o atleast_1d(other[k])) ELSE c[k]]

\* line 342: for i in range(1, len(litecurves))
RECURSIVE stitch_loop(_, _, _, _)
stitch_loop(h, c, ids, i) ==
    IF i > Len(ids) THEN h
    ELSE stitch_loop([h EXCEPT ![c] = stitch_one(h[c], h[ids[i]])], c, ids, i + 1)

stitch(h, ids) ==
    LET copy == deepcopy(h, ids[1])
    IN  [heap |-> stitch_loop(copy.heap, copy.id, ids, 2), id |-> copy.id]

(***************************************************************************)
(* Light curves given to the operations                                    *)
(***************************************************************************)
\* cadno is strictly increasing; a step is 1 (contiguous), break_tolerance
\* (the largest step that is no gap) or break_tolerance+1 (the smallest gap)
Steps(tol) == {1, tol, tol + 1}

RECURSIVE Cumulate(_, _)
Cumulate(start, steps) ==
    IF steps = <<>> THEN <<start>>
    ELSE <<start>> \o Cumulate(start + Head(steps), Tail(steps))

CadnoSeqs(n, tol) == {Cumulate(0, st) : st \in [1..(n - 1) -> Steps(tol)]}

LiteCurve(cadno, flux, error, mask) ==
    [time |-> cadno, flux |-> flux, error |-> error, cadno |-> cadno,
     quarter |-> [i \in 1..Len(cadno) |-> 0], mask |-> mask]

AllFalse(n) == [i \in 1..n |-> FALSE]

Ones(n) == [i \in 1..n |-> 1]

GapsIdle ==
    /\ break_tolerance = 0
    /\ jump_tolerance = 0
    /\ gaps = <<>>

MaskIdle ==
    /\ tts = <<>>
    /\ masksize = 0
    /\ transitmask = <<>>

FlatIdle ==
    /\ kterm = None
    /\ correct_ramp = FALSE
    /\ full_trend = <<>>
    /\ lc_before = LiteCurve(<<>>, <<>>, <<>>, <<>>)
    /\ trend_map = NoTrendMap

LoopIdle ==
    /\ loop = None
    /\ nquarters = 0
    /\ qi = 0
    /\ calls = <<>>
    /\ done = <<>>

RingIdle ==
    /\ fring = <<>>
    /\ ring_segs = <<>>
    /\ flux_filtered = <<>>

StitchIdle ==
    /\ heap = <<>>
    /\ heap_before = <<>>
    /\ litecurves = <<>>
    /\ combo = 0

CatIdle ==
    /\ MISSION = None
    /\ target_dict = <<>>
    /\ exception = None
    /\ stages_run = <<>>

PlanIdle ==
    /\ TIME_END = 0
    /\ planets = <<>>

NoFit == [overlap |-> FALSE, npts |-> 0, a |-> 0, recovered |-> NaN, fitted |-> FALSE,
          delta_chisq |-> 1, iterations |-> 0]

SlideIdle ==
    /\ shape_transit_times = <<>>
    /\ p_overlap = <<>>
    /\ slide_transit_times = <<>>
    /\ slide_error = <<>>
    /\ slide_fits = <<>>
    /\ fit_log = NoFit
    /\ refit = <<>>
    /\ indep_transit_times = <<>>
    /\ indep_error = <<>>

QuickIdle ==
    /\ transit_inds = <<>>
    /\ pfit = <<>>
    /\ full_indep_ephemeris = <<>>
    /\ candidates = <<>>
    /\ aiclist = <<>>
    /\ fgplist = <<>>
    /\ outlist = <<>>
    /\ omc_refit = <<>>
    /\ full_quick_transit_times = <<>>
    /\ quick_transit_times = <<>>
    /\ outlier_prob = <<>>
    /\ outlier_class = <<>>

OutIdle ==
    /\ t_ = <<>>
    /\ f_ = <<>>
    /\ res_i = <<>>
    /\ res_q = <<>>
    /\ bad_lc = <<>>

ResetIdle ==
    /\ lc_raw_collection = <<>>
    /\ lc_data = <<>>
    /\ all_dtype = <<>>
    /\ good_cadno_lc = {}

MatchIdle ==
    /\ indep_freqs = <<>>
    /\ indep_faps = <<>>
    /\ ephem_span = <<>>
    /\ omc_freqs = <<>>
    /\ omc_pers = <<>>

EpochIdle ==
    /\ TIME_START = 0
    /\ EPOCHS = <<>>
    /\ PERIODS = <<>>
    /\ CATALOG_EPOCHS = <<>>
    /\ holczer_pfit = <<>>
    /\ hepoch = 0

ExpIdle ==
    /\ map_dtype = <<>>
    /\ oversample = <<>>
    /\ texp = <<>>
    /\ shape_model = <<>>
    /\ indep_model = <<>>

TailIdle == MatchIdle /\ EpochIdle /\ ExpIdle

RestIdle == ResetIdle /\ TailIdle

TtvIdle == CatIdle /\ PlanIdle /\ SlideIdle /\ QuickIdle /\ OutIdle /\ RestIdle

DetrendIdle ==
    /\ lc = LiteCurve(<<>>, <<>>, <<>>, <<>>)
    /\ GapsIdle /\ MaskIdle /\ FlatIdle /\ LoopIdle /\ RingIdle /\ StitchIdle

(***************************************************************************)
(* Specification SpecGaps: identify_gaps applied to a light curve          *)
(***************************************************************************)
InitGaps ==
    /\ pc = "identify_gaps"
    /\ break_tolerance \in 1..MaxTol
    /\ jump_tolerance \in JumpTols
    /\ \E n \in 1..MaxN :
         \E cadno \in CadnoSeqs(n, break_tolerance), flux \in [1..n -> FluxVals] :
            lc = LiteCurve(cadno, flux, Ones(n), AllFalse(n))
    /\ gaps = <<>>
    /\ MaskIdle /\ FlatIdle /\ LoopIdle /\ RingIdle /\ StitchIdle /\ TtvIdle

CallIdentifyGaps ==
    /\ pc = "identify_gaps"
    /\ gaps' = identify_gaps(lc, break_tolerance, jump_tolerance)
    /\ pc' = "gaps_returned"
    /\ UNCHANGED <<lc, break_tolerance, jump_tolerance, maskVars, flatVars, loopVars, ringVars, stitchVars, ttvVars>>

NextGaps == CallIdentifyGaps

SpecGaps == InitGaps /\ [][NextGaps]_vars

(***************************************************************************)
(* Claims about identify_gaps (checked under SpecGaps)                     *)
(***************************************************************************)
NCad == Len(lc.cadno)

GapsSet == {gaps[j] : j \in 1..Len(gaps)}

\* cadno[k] - cadno[k-1] for a Python index 1 <= k < N
CadStep(k) == lc.cadno[k + 1] - lc.cadno[k]

Gapless == \A k \in 1..(NCad - 1) : CadStep(k) <= break_tolerance

\* the flux change at Python index k deviates by more than sigma robust sigmas
JumpAt(k, sigma) == exceeds(jumps(lc.flux), k + 1, sigma)

NoJump == \A k \in 0..(NCad - 1) : ~JumpAt(k, jump_tolerance)

\* exactly one gap, of break_tolerance+1 cadences, at Python index k
OneGapAt(k) ==
    /\ CadStep(k) = break_tolerance + 1
    /\ \A j \in 1..(NCad - 1) : j # k => CadStep(j) <= break_tolerance

\* C1 (as stated): a light curve of N cadences without a gap and without a
\* flux jump gives exactly the boundaries [0, N].
C1_Original ==
    (pc = "gaps_returned" /\ Gapless /\ NoJump) => gaps = <<0, NCad>>

\* C1 (amended): a light curve of N cadences without a gap and without a flux
\* jump gives the boundaries [0, N+1] when N+1 >= break_tolerance, and the
\* single boundary [N+1] when N+1 < break_tolerance.
C1_GaplessBoundaries ==
    (pc = "gaps_returned" /\ Gapless /\ NoJump) =>
        gaps = IF NCad + 1 >= break_tolerance THEN <<0, NCad + 1>> ELSE <<NCad + 1>>

C1_Witness ==
    /\ pc = "gaps_returned" /\ Gapless /\ NoJump
    /\ NCad >= 4 /\ break_tolerance = 2
    /\ \E k \in 1..(NCad - 1) : CadStep(k) = break_tolerance
    /\ gaps = <<0, NCad + 1>>

\* C2 (as stated): with exactly one gap of break_tolerance+1 at index k and no
\* flux jump, the boundaries contain k, wherever k lies.
C2_Original ==
    pc = "gaps_returned" =>
        \A k \in 1..(NCad - 1) : (OneGapAt(k) /\ NoJump) => k \in GapsSet

\* C2 (amended): with exactly one gap of break_tolerance+1 at index k and no
\* flux jump, the boundaries contain k exactly when k is at least
\* break_tolerance away from the start 0 and from the end boundary N+1.
C2_SingleGapBoundary ==
    pc = "gaps_returned" =>
        \A k \in 1..(NCad - 1) : (OneGapAt(k) /\ NoJump) =>
            (k \in GapsSet <=> (k >= break_tolerance /\ NCad + 1 - k >= break_tolerance))

C2_Witness ==
    /\ pc = "gaps_returned" /\ NoJump
    /\ break_tolerance >= 2
    /\ \E k \in 1..(NCad - 1) : OneGapAt(k) /\ gaps = <<0, k, NCad + 1>>

\* C3: a flux change at index k that deviates from the median change by more
\* than jump_tolerance robust sigmas, k being at least break_tolerance away
\* from every other boundary, gives a boundary at k.
C3_JumpBoundary ==
    pc = "gaps_returned" =>
        \A k \in 1..(NCad - 1) :
            ( /\ Gapless
              /\ JumpAt(k, jump_tolerance)
              /\ \A j \in 0..(NCad - 1) : j # k => ~JumpAt(j, jump_tolerance)
              /\ k >= break_tolerance /\ NCad + 1 - k >= break_tolerance )
            => k \in GapsSet

\* C4: the boundaries are strictly increasing, at least two, start with 0 and
\* end with the end boundary, for every light curve.
C4_StartAndEnd ==
    pc = "gaps_returned" =>
        /\ Len(gaps) >= 2
        /\ \A j \in 1..(Len(gaps) - 1) : gaps[j] < gaps[j + 1]
        /\ gaps[1] = 0
        /\ gaps[Len(gaps)] = Len(breaks(lc.cadno)) + 1

(***************************************************************************)
(* Specification SpecMask: make_transitmask applied to the times of a      *)
(* light curve and the transit times of one planet                         *)
(***************************************************************************)
\* transit times from two cadences before the first to two after the last
TtsVals(time) == (np_min(time) - MaxMaskSize)..(np_max(time) + MaxMaskSize)

SeqsUpTo(S, n) == UNION {[1..m -> S] : m \in 0..n}

InitMask ==
    /\ pc = "make_transitmask"
    /\ GapsIdle
    /\ masksize \in 1..MaxMaskSize
    /\ \E n \in 1..MaxMaskN :
         \E cadno \in CadnoSeqs(n, 2) :
            /\ lc = LiteCurve(cadno, Ones(n), Ones(n), AllFalse(n))
            /\ tts \in SeqsUpTo(TtsVals(cadno), MaxTts)
    /\ transitmask = <<>>
    /\ FlatIdle /\ LoopIdle /\ RingIdle /\ StitchIdle /\ TtvIdle

CallMakeTransitmask ==
    /\ pc = "make_transitmask"
    /\ transitmask' = make_transitmask(lc.time, tts, masksize)
    /\ pc' = "mask_returned"
    /\ UNCHANGED <<gapVars, tts, masksize, flatVars, loopVars, ringVars, stitchVars, ttvVars>>

NextMask == CallMakeTransitmask

SpecMask == InitMask /\ [][NextMask]_vars

\* C5: make_transitmask returns one boolean per cadence, and mask[i] is true
\* exactly when some transit time t0 with min(time) <= t0 <= max(time) has
\* |time[i] - t0| < masksize.
C5_TransitMask ==
    pc = "mask_returned" =>
        /\ Len(transitmask) = Len(lc.time)
        /\ \A i \in 1..Len(lc.time) :
              transitmask[i] \in BOOLEAN /\
              (transitmask[i] <=>
                 \E j \in 1..Len(tts) :
                    /\ np_min(lc.time) <= tts[j] /\ tts[j] <= np_max(lc.time)
                    /\ Abs(lc.time[i] - tts[j]) < masksize)

\* two transit times, one inside and one outside the observed range; a cadence
\* within masksize of the outer one only, one exactly masksize away from the
\* inner one, and one masked by the inner one
C5_Witness ==
    /\ pc = "mask_returned"
    /\ Len(tts) = 2
    /\ \E j, k \in 1..2 :
         /\ tts[j] > np_max(lc.time)
         /\ tts[k] >= np_min(lc.time) /\ tts[k] <= np_max(lc.time)
         /\ \E i \in 1..Len(lc.time) :
               Abs(lc.time[i] - tts[j]) < masksize /\ ~transitmask[i]
         /\ \E i \in 1..Len(lc.time) :
               Abs(lc.time[i] - tts[k]) = masksize /\ ~transitmask[i]
         /\ \E i \in 1..Len(lc.time) : transitmask[i]

(***************************************************************************)
(* Specification SpecFlatten: one call of flatten_with_gp                  *)
(***************************************************************************)
FluxUnit == 60     \* a multiple of every trend value 1..5

\* raw light curves of n cadences with a transit mask
RawCurves(n, tol) ==
    {LiteCurve(cadno, [i \in 1..n |-> FluxUnit * i], [i \in 1..n |-> FluxUnit], mask) :
        cadno \in CadnoSeqs(n, tol), mask \in [1..n -> BOOLEAN]}

KTerms == {"RotationTerm", "SHOTerm", "Matern32Term"}

InitFlatten ==
    /\ pc = "flatten_with_gp"
    /\ break_tolerance \in 1..MaxTol
    /\ jump_tolerance = JumpSigma
    /\ gaps = <<>>
    /\ MaskIdle /\ LoopIdle /\ RingIdle /\ StitchIdle /\ TtvIdle
    /\ \E n \in 1..MaxFlatN : lc \in RawCurves(n, break_tolerance)
    /\ lc_before = lc
    /\ kterm \in KTerms
    /\ correct_ramp \in BOOLEAN
    /\ full_trend = <<>>
    /\ trend_map = NoTrendMap

CallFlatten ==
    /\ pc = "flatten_with_gp"
    /\ \E o \in FlattenOutcomes(lc, break_tolerance, kterm, correct_ramp) :
         /\ lc' = o.lc
         /\ full_trend' = o.full_trend
         /\ trend_map' = o.trend_map
         /\ pc' = IF o.raised THEN "flatten_raised" ELSE "flatten_returned"
    /\ UNCHANGED <<break_tolerance, jump_tolerance, gaps, maskVars, kterm,
                   correct_ramp, lc_before, loopVars, ringVars, stitchVars, ttvVars>>

NextFlatten == CallFlatten

SpecFlatten == InitFlatten /\ [][NextFlatten]_vars

\* C7: a successful flatten_with_gp computes one trend value per cadence,
\* masked cadences included, and divides flux and error element-wise by that
\* trend; time, cadno, quarter and mask are unchanged and the number of
\* cadences stays the same.
C7_Normalized ==
    pc = "flatten_returned" =>
        /\ Len(full_trend) = Len(lc_before.time)
        /\ Len(lc.flux) = Len(lc_before.flux) /\ Len(lc.error) = Len(lc_before.error)
        /\ \A p \in 1..Len(lc_before.time) :
              /\ full_trend[p] # 0
              /\ lc.flux[p] * full_trend[p] = lc_before.flux[p]
              /\ lc.error[p] * full_trend[p] = lc_before.error[p]
        /\ lc.time = lc_before.time /\ lc.cadno = lc_before.cadno
        /\ lc.quarter = lc_before.quarter /\ lc.mask = lc_before.mask

\* a success on a curve with a masked cadence whose trend differs from the
\* trend of an unmasked one
C7_Witness ==
    /\ pc = "flatten_returned"
    /\ \E p, q \in 1..Len(lc.time) :
          /\ lc_before.mask[p] /\ ~lc_before.mask[q]
          /\ full_trend[p] > 1 /\ full_trend[p] # full_trend[q]
          /\ lc.flux[p] # lc_before.flux[p] /\ lc.error[p] # lc_before.error[p]

(***************************************************************************)
(* Specification SpecLadder: a detrending loop of the script.  The four    *)
(* loops (1st pass long cadence 577-599, short cadence 611-633; 2nd pass   *)
(* long cadence 1819-1836, short cadence 1847-1864) run the same ladder.   *)
(***************************************************************************)
Loops == {"1st_long", "1st_short", "2nd_long", "2nd_short"}

\* the arguments of the call at each rung
LadderArgs(rung) ==
    CASE rung = "try_full" -> [kterm |-> "RotationTerm", correct_ramp |-> TRUE]
      [] rung = "try_noramp" -> [kterm |-> "RotationTerm", correct_ramp |-> FALSE]
      [] rung = "try_sho" -> [kterm |-> "SHOTerm", correct_ramp |-> FALSE]

\* where an exception of the call at a rung leads: the except clause of the
\* first two, out of the script for the third (no handler encloses it)
LadderOnRaise_skip(rung) ==
    CASE rung = "try_full" -> "try_noramp"
      [] rung = "try_noramp" -> "try_sho"
      [] rung = "try_sho" -> "for"

LadderOnRaise(rung) ==
    CASE rung = "try_full" -> "try_noramp"
      [] rung = "try_noramp" -> "try_sho"
      [] rung = "try_sho" -> "fatal"

InitLadder ==
    /\ pc = "for"
    /\ loop \in Loops
    /\ nquarters \in 0..MaxQuarters
    /\ qi = 0
    /\ calls = <<>>
    /\ done = <<>>
    /\ break_tolerance \in 1..MaxTol
    /\ jump_tolerance = JumpSigma
    /\ gaps = <<>>
    /\ MaskIdle
    /\ lc = LiteCurve(<<>>, <<>>, <<>>, <<>>)
    /\ FlatIdle /\ RingIdle /\ StitchIdle /\ TtvIdle

\* the head of the loop body: the next light curve of lc_data, flagged
\* cadences removed and the transit mask made
BeginQuarter ==
    /\ pc = "for"
    /\ qi < nquarters
    /\ \E n \in 1..MaxLoopN : lc' \in RawCurves(n, break_tolerance)
    /\ lc_before' = lc'
    /\ qi' = qi + 1
    /\ calls' = <<>>
    /\ full_trend' = <<>>
    /\ trend_map' = NoTrendMap
    /\ pc' = "try_full"
    /\ UNCHANGED <<break_tolerance, jump_tolerance, gaps, maskVars, kterm,
                   correct_ramp, loop, nquarters, done, ringVars, stitchVars, ttvVars>>

\* one call of flatten_with_gp of the try/except ladder
Attempt(rung) ==
    /\ pc = rung
    /\ kterm' = LadderArgs(rung).kterm
    /\ correct_ramp' = LadderArgs(rung).correct_ramp
    /\ \E o \in FlattenOutcomes(lc, break_tolerance, kterm', correct_ramp') :
         /\ lc' = o.lc
         /\ full_trend' = o.full_trend
         /\ trend_map' = o.trend_map
         /\ calls' = Append(calls, [kterm |-> kterm', correct_ramp |-> correct_ramp',
                                    raised |-> o.raised])
         /\ pc' = IF o.raised THEN LadderOnRaise(rung) ELSE "for"
         /\ done' = IF pc' = "for" THEN Append(done, ~o.raised) ELSE done
    /\ UNCHANGED <<break_tolerance, jump_tolerance, gaps, maskVars, lc_before,
                   loop, nquarters, qi, ringVars, stitchVars, ttvVars>>

TryFull == Attempt("try_full")

TryNoRamp == Attempt("try_noramp")

TrySHO == Attempt("try_sho")

\* after the loop: lc = detrend.stitch(lc_data) if len(lc_data) > 0 else None
AfterLoop ==
    /\ pc = "for"
    /\ qi = nquarters
    /\ pc' = "stitched"
    /\ UNCHANGED <<gapVars, maskVars, flatVars, loopVars, ringVars, stitchVars, ttvVars>>

NextLadder == BeginQuarter \/ TryFull \/ TryNoRamp \/ TrySHO \/ AfterLoop

SpecLadder == InitLadder /\ [][NextLadder]_vars

Ladder ==
    <<LadderArgs("try_full"), LadderArgs("try_noramp"), LadderArgs("try_sho")>>

RungNo == [try_full |-> 1, try_noramp |-> 2, try_sho |-> 3]

\* C6: for each light curve of a detrending loop the calls of flatten_with_gp
\* are (RotationTerm, ramp), then (RotationTerm, no ramp), then (SHOTerm, no
\* ramp), each only after the one before raised; the first success ends the
\* ladder; when all three raise the script stops; every light curve the loop
\* passes on has been normalized.
C6_FallbackLadder ==
    /\ Len(calls) <= 3
    /\ \A j \in 1..Len(calls) :
          /\ calls[j].kterm = Ladder[j].kterm
          /\ calls[j].correct_ramp = Ladder[j].correct_ramp
          /\ j < Len(calls) => calls[j].raised
    /\ pc \in DOMAIN RungNo =>
          /\ Len(calls) = RungNo[pc] - 1
          /\ \A j \in 1..Len(calls) : calls[j].raised
    /\ pc = "fatal" <=> (Len(calls) = 3 /\ \A j \in 1..3 : calls[j].raised)
    /\ pc = "fatal" => ~ENABLED NextLadder
    /\ (pc \in {"for", "stitched"} /\ qi > 0) =>
          /\ calls # <<>> /\ ~calls[Len(calls)].raised
          /\ lc.flux # lc_before.flux \/ \A p \in 1..Len(full_trend) : full_trend[p] = 1
    /\ pc \in {"for", "stitched"} => Len(done) = qi
    /\ \A j \in 1..Len(done) : done[j]
    /\ pc = "stitched" => qi = nquarters

\* the second light curve of a loop normalized by the third rung
C6_Witness ==
    /\ pc = "for" /\ qi = 2
    /\ Len(calls) = 3
    /\ calls[1].raised /\ calls[2].raised /\ ~calls[3].raised
    /\ kterm = "SHOTerm" /\ ~correct_ramp
    /\ done = <<TRUE, TRUE>>

(***************************************************************************)
(* Specification SpecRing: filter_ringing applied to a light curve         *)
(***************************************************************************)
\* the flux of cadence i is RingFluxStep*i: further apart than any transient
RingFluxStep == 10

InitRing ==
    /\ pc = "filter_ringing"
    /\ break_tolerance \in 1..MaxTol
    /\ jump_tolerance = JumpSigma
    /\ gaps = <<>>
    /\ MaskIdle /\ FlatIdle /\ LoopIdle /\ StitchIdle /\ TtvIdle
    /\ \E n \in 1..MaxRingN :
         \E cadno \in CadnoSeqs(n, break_tolerance) :
            lc = LiteCurve(cadno, [i \in 1..n |-> RingFluxStep * i], Ones(n), AllFalse(n))
    /\ \E k \in 1..MaxRing : fring = [j \in 1..k |-> j]
    /\ ring_segs = <<>>
    /\ flux_filtered = <<>>

CallFilterRinging ==
    /\ pc = "filter_ringing"
    /\ \E o \in filter_ringing(lc, break_tolerance, fring) :
         /\ ring_segs' = o.segs
         /\ flux_filtered' = o.flux_filtered
         /\ pc' = IF o.raised THEN "ring_raised" ELSE "ring_returned"
    /\ UNCHANGED <<gapVars, maskVars, flatVars, loopVars, fring, stitchVars, ttvVars>>

NextRing == CallFilterRinging

SpecRing == InitRing /\ [][NextRing]_vars

\* C8: within every segment the filtered flux is the blend w*F + (1-w)*B of
\* the forward-then-backward filtered signal F and the backward-then-forward
\* filtered signal B, with w the linear ramp from 0 to 1.
C8_Blend ==
    pc = "ring_returned" =>
        \A i \in 1..Len(ring_segs) :
            LET sg == ring_segs[i]
                n == Len(sg.f_filt)
            IN  \A p \in 1..n :
                   sg.f_filt[p] * (n - 1) =
                       (p - 1) * sg.f_fwd_back[p] + (n - p) * sg.f_back_fwd[p]

\* C9: filter_ringing returns one flux value per input cadence, in input
\* order, for every pattern of gaps and every length of light curve.
C9_OnePerCadence ==
    pc \in {"ring_returned", "ring_raised"} =>
        /\ pc = "ring_returned"
        /\ Len(flux_filtered) = Len(lc.flux)
        /\ \A i \in 1..Len(lc.flux) : flux_filtered[i] - lc.flux[i] \in 0..Len(fring)

(***************************************************************************)
(* Specification SpecStitch: stitch applied to the light curves of a       *)
(* detrending loop                                                         *)
(***************************************************************************)
Attrs == {"time", "flux", "error", "cadno", "quarter", "mask"}

\* the j-th light curve of the list: n cadences numbered from CadnoBase*j; the
\* mask attribute is an array in every curve of the list or None in every one
CadnoBase == 10

LiteCurveObject(j, flux, masked) ==
    LET n == Len(flux)
        cad == [p \in 1..n |-> CadnoBase * j + p]
    IN  [k \in Attrs |->
            CASE k = "time" -> ndarray(cad)
              [] k = "flux" -> ndarray(flux)
              [] k = "error" -> ndarray([p \in 1..n |-> flux[p] + 1])
              [] k = "cadno" -> ndarray(cad)
              [] k = "quarter" -> ndarray([p \in 1..n |-> j])
              [] k = "mask" -> IF masked THEN ndarray([p \in 1..n |-> p = 1])
                               ELSE NoneValue]

StitchFlux == {1, 2}

InitStitch ==
    /\ pc = "stitch"
    /\ GapsIdle /\ MaskIdle /\ FlatIdle /\ LoopIdle /\ RingIdle /\ TtvIdle
    /\ lc = LiteCurve(<<>>, <<>>, <<>>, <<>>)
    /\ \E m \in 1..MaxCurves, masked \in BOOLEAN :
         \E fluxes \in [1..m -> SeqsUpTo(StitchFlux, MaxStitchN)] :
            /\ heap = [j \in 1..m |-> LiteCurveObject(j, fluxes[j], masked)]
            /\ litecurves = [j \in 1..m |-> j]
    /\ heap_before = heap
    /\ combo = 0

CallStitch ==
    /\ pc = "stitch"
    /\ heap' = stitch(heap, litecurves).heap
    /\ combo' = stitch(heap, litecurves).id
    /\ pc' = "stitch_returned"
    /\ UNCHANGED <<lc, gapVars, maskVars, flatVars, loopVars, ringVars,
                   heap_before, litecurves, ttvVars>>

NextStitch == CallStitch

SpecStitch == InitStitch /\ [][NextStitch]_vars

\* number of cadences of the first i light curves of the list
RECURSIVE CadencesBefore(_)
CadencesBefore(i) ==
    IF i = 0 THEN 0
    ELSE CadencesBefore(i - 1) + Len(heap_before[litecurves[i]]["time"].data)

\* C10: stitch returns a new LiteCurve in which every array attribute is the
\* concatenation, in list order, of that attribute of the inputs; all arrays
\* of the result have one length, the sum of the input lengths; the inputs
\* are not modified.
C10_Stitch ==
    pc = "stitch_returned" =>
        /\ \A i \in 1..Len(litecurves) :
              combo # litecurves[i] /\ heap[litecurves[i]] = heap_before[litecurves[i]]
        /\ \A k \in Attrs :
              heap[combo][k].ndarray =>
                 /\ Len(heap[combo][k].data) = CadencesBefore(Len(litecurves))
                 /\ \A i \in 1..Len(litecurves) :
                       \A p \in 1..Len(heap_before[litecurves[i]][k].data) :
                          heap[combo][k].data[CadencesBefore(i - 1) + p] =
                              heap_before[litecurves[i]][k].data[p]
        /\ \A k \in Attrs \ {"mask"} : heap[combo][k].ndarray

\* three light curves of different lengths, with masks, stitched
C10_Witness ==
    /\ pc = "stitch_returned"
    /\ Len(litecurves) = 3
    /\ Len(heap_before[1]["flux"].data) = 2
    /\ Len(heap_before[2]["flux"].data) = 1
    /\ Len(heap_before[3]["flux"].data) = 2
    /\ heap[combo]["mask"].ndarray
    /\ heap[combo]["flux"].data # heap_before[1]["flux"].data
    /\ Len(heap[combo]["cadno"].data) = 5

(***************************************************************************)
(* Start of the script: the consistency checks of the input catalog        *)
(***************************************************************************)
MaxRows == 2        \* rows of the catalog that belong to the target

Missions == {"Kepler", "Simulated", "TESS"}

CatalogColumns ==
    {"kic_id", "npl", "limbdark_1", "limbdark_2",
     "period", "epoch", "depth", "duration", "impact"}

\* the value a row may hold instead of 1: another number in the columns
\* that must agree between rows, NaN in the columns tested for NaN
OddValues(c) ==
    IF c \in {"kic_id", "npl", "limbdark_2"} THEN {2}
    ELSE IF c = "limbdark_1" THEN {2, NaN}
    ELSE {NaN}

\* the columns of n rows: all rows hold 1, or one row holds another value
Column(n, odd) ==
    {[i \in 1..n |-> 1]} \cup
    {[i \in 1..n |-> IF i = r THEN o ELSE 1] : r \in 1..n, o \in odd}

Catalogs(n) ==
    [kic_id : Column(n, OddValues("kic_id")),
     npl : Column(n, OddValues("npl")),
     limbdark_1 : Column(n, OddValues("limbdark_1")),
     limbdark_2 : Column(n, OddValues("limbdark_2")),
     period : Column(n, OddValues("period")),
     epoch : Column(n, OddValues("epoch")),
     depth : Column(n, OddValues("depth")),
     duration : Column(n, OddValues("duration")),
     impact : Column(n, OddValues("impact"))]

all_equal_first(col) == \A i \in 1..Len(col) : np_eq(col[i], col[1])

np_any_isnan(col) == \E i \in 1..Len(col) : isnan(col[i])

\* np.all(np.isnan()) in place of np.any(np.isnan()): a slip the checks must exclude
np_all_isnan(col) == \A i \in 1..Len(col) : isnan(col[i])

\* the checks with np_all_isnan in place of np_any_isnan
catalog_checks_all(mission, td) ==
    IF mission \notin {"Kepler", "Simulated"}
        THEN "MISSION must be 'Kepler' or 'Simulated'"
    ELSE IF ~all_equal_first(td["kic_id"])
        THEN "There are inconsistencies with KIC in the csv input file"
    ELSE IF Len(td["kic_id"]) = 0
        THEN "IndexError"
    ELSE IF ~all_equal_first(td["npl"])
        THEN "There are inconsistencies with NPL in the csv input file"
    ELSE IF ~all_equal_first(td["limbdark_1"])
        THEN "There are inconsistencies with U1 in the csv input file"
    ELSE IF ~all_equal_first(td["limbdark_2"])
        THEN "There are inconsistencies with U2 in the csv input file"
    ELSE IF \/ np_all_isnan(td["period"])
            \/ np_all_isnan(td["epoch"])
            \/ np_all_isnan(td["depth"])
            \/ np_all_isnan(td["duration"])
            \/ np_all_isnan(td["impact"])
        THEN "NaN values found in input catalog"
    ELSE None

\* lines 159-199: the first statement that raises, None if none does
catalog_checks(mission, td) ==
    IF mission \notin {"Kepler", "Simulated"}
        THEN "MISSION must be 'Kepler' or 'Simulated'"
    ELSE IF ~all_equal_first(td["kic_id"])
        THEN "There are inconsistencies with KIC in the csv input file"
    ELSE IF Len(td["kic_id"]) = 0
        THEN "IndexError"
    ELSE IF ~all_equal_first(td["npl"])
        THEN "There are inconsistencies with NPL in the csv input file"
    ELSE IF ~all_equal_first(td["limbdark_1"])
        THEN "There are inconsistencies with U1 in the csv input file"
    ELSE IF ~all_equal_first(td["limbdark_2"])
        THEN "There are inconsistencies with U2 in the csv input file"
    ELSE IF \/ np_any_isnan(td["period"])
            \/ np_any_isnan(td["epoch"])
            \/ np_any_isnan(td["depth"])
            \/ np_any_isnan(td["duration"])
            \/ np_any_isnan(td["impact"])
        THEN "NaN values found in input catalog"
    ELSE None

\* the stages of the script that follow the catalog checks, in order
Stages ==
    <<"DATA I/O", "PRELIMINARIES", "TRANSIT TIME SETUP", "1ST DETRENDING",
      "LIGHTCURVE FITTING", "OMC MODEL SELECTION", "2ND DETRENDING">>

InitCatalog ==
    /\ pc = "read_catalog"
    /\ MISSION \in Missions
    /\ \E n \in 0..MaxRows : target_dict \in Catalogs(n)
    /\ exception = None
    /\ stages_run = <<>>
    /\ PlanIdle /\ SlideIdle /\ QuickIdle /\ OutIdle /\ RestIdle
    /\ DetrendIdle

\* lines 157-199
ReadCatalog ==
    /\ pc = "read_catalog"
    /\ exception' = catalog_checks(MISSION, target_dict)
    /\ pc' = IF exception' = None THEN "stage" ELSE "raised"
    /\ UNCHANGED <<MISSION, target_dict, stages_run, planVars, slideVars, quickVars, outVars, restVars>>
    /\ UNCHANGED <<gapVars, maskVars, flatVars, loopVars, ringVars, stitchVars>>

\* lines 202-2029: the next stage of the script runs; TIME_START < 0 raises
\* in the preliminaries (line 331)
RunStage ==
    /\ pc = "stage"
    /\ Len(stages_run) < Len(Stages)
    /\ stages_run' = Append(stages_run, Stages[Len(stages_run) + 1])
    /\ \E time_start \in {-1, 0} :
         IF Stages[Len(stages_run) + 1] = "PRELIMINARIES" /\ time_start < 0
         THEN /\ exception' = "START TIME [BKJD] is negative...this will cause problems"
              /\ pc' = "raised"
         ELSE /\ exception' = exception
              /\ pc' = IF Len(stages_run') = Len(Stages) THEN "exit" ELSE "stage"
    /\ UNCHANGED <<MISSION, target_dict, planVars, slideVars, quickVars, outVars, restVars>>
    /\ UNCHANGED <<gapVars, maskVars, flatVars, loopVars, ringVars, stitchVars>>

NextCatalog == ReadCatalog \/ RunStage

SpecCatalog == InitCatalog /\ [][NextCatalog]_vars

\* the condition of the claim on the catalog and the mission
HasNaN(td) ==
    \E c \in {"period", "epoch", "depth", "duration", "impact"} :
        \E i \in 1..Len(td[c]) : isnan(td[c][i])

Differs(td) ==
    \E c \in {"kic_id", "npl", "limbdark_1", "limbdark_2"} :
        \E i, j \in 1..Len(td[c]) : td[c][i] # td[c][j]

BadInput == HasNaN(target_dict) \/ Differs(target_dict) \/ MISSION \notin {"Kepler", "Simulated"}

\* C12: if a transit parameter of the target is NaN, or kic_id, npl, u1 or
\* u2 differ between the rows of the target, or the mission is neither
\* 'Kepler' nor 'Simulated', the script ends with an exception in the
\* catalog checks and no later stage runs.
C12_CatalogFatal ==
    (BadInput /\ pc # "read_catalog") =>
        /\ pc = "raised"
        /\ exception # None
        /\ stages_run = <<>>

\* C12: a catalog of two rows with a NaN impact in the second row only has
\* been read and the script has raised
C12_Witness ==
    /\ pc = "raised"
    /\ MISSION = "Kepler"
    /\ Len(target_dict["impact"]) = 2
    /\ isnan(target_dict["impact"][2])
    /\ ~isnan(target_dict["impact"][1])
    /\ ~Differs(target_dict)
    /\ stages_run = <<>>

(***************************************************************************)
(* Planet objects: linear ephemeris, replacement by the Holczer+ 2016      *)
(* transit times, quality and overlap flags, update by the quick model     *)
(***************************************************************************)
MaxTimeEnd == 7     \* TIME_END ranges over MaxTimeEnd-1..MaxTimeEnd; TIME_START is 0
MaxPlanets == 2     \* NPL ranges over 1..MaxPlanets

Periods == {3, 6}

Epochs == {0, 1, 2}

Duration == 1

\* np.arange(start, stop, step) for step > 0
np_arange(start, stop, step) ==
    LET n == IF stop <= start THEN 0 ELSE ((stop - start - 1) \div step) + 1
    IN  [k \in 1..n |-> start + (k - 1) * step]

\* np.round(a / b) for b > 0: to the nearest integer, halves to the even one
round_div(a, b) ==
    LET q == a \div b
        r == a % b
    IN  IF 2 * r < b THEN q
        ELSE IF 2 * r > b THEN q + 1
        ELSE IF q % 2 = 0 THEN q ELSE q + 1

\* lines 352-371
NewPlanet(epoch, period, time_end) ==
    LET t == np_arange(epoch, time_end, period)
    IN  [epoch |-> epoch, period |-> period, duration |-> Duration,
         tts |-> t,
         index |-> [i \in 1..Len(t) |-> round_div(t[i] - epoch, period)],
         quality |-> <<>>, overlap |-> <<>>]

\* lines 375-381: planets in order of period (ties keep the catalog order)
sort_by_period(ps) ==
    IF Len(ps) = 2 /\ ps[2].period < ps[1].period THEN <<ps[2], ps[1]>> ELSE ps

\* poly.polyval(x, [c0, c1])
polyval(x, fit) == [i \in 1..Len(x) |-> fit.c0 + fit.c1 * x[i]]

\* One entry of the Holczer lists per planet number: none (holczer_pers is
\* NaN), or the smoothed transit times hephem + pred, where pred is zero or
\* delays one transit by one time unit
NoHolczer == [exists |-> FALSE, hepoch |-> 0, hper |-> NaN, bump |-> 0]

HolczerEntries(time_end) ==
    {NoHolczer} \cup
    {e \in [exists : {TRUE}, hepoch : Epochs, hper : {3, 4, 6}, bump : 0..2] :
        Len(np_arange(e.hepoch, time_end, e.hper)) >= 2}

\* lines 482-504
holczer_tts(e, time_end) ==
    LET hephem == np_arange(e.hepoch, time_end, e.hper)
    IN  [i \in 1..Len(hephem) |-> hephem[i] + (IF i = e.bump THEN 1 ELSE 0)]

\* line 533: the least-squares line through (hinds, htts); with one delayed
\* transit the fitted epoch lies between the undelayed and the delayed one
polyfit_holczer(e) ==
    {[c0 |-> c, c1 |-> e.hper] : c \in (IF e.bump = 0 THEN {e.hepoch} ELSE {e.hepoch, e.hepoch + 1})}

\* np.isclose(a, b, rtol=0.1, atol)
np_isclose(a, b, atol) == ~isnan(a) /\ ~isnan(b) /\ 10 * Abs(a - b) <= 10 * atol + Abs(b)

\* lines 539-542: every transit time within a quarter period of a Holczer
\* time takes that time (the last such one)
RECURSIVE snap_one(_, _, _)
snap_one(t0, htts, period) ==
    IF htts = <<>> THEN t0
    ELSE LET tH == htts[Len(htts)]
         IN  IF 4 * Abs(t0 - tH) < period THEN tH
             ELSE snap_one(t0, SubSeq(htts, 1, Len(htts) - 1), period)

snap(t, htts, period) == [i \in 1..Len(t) |-> snap_one(t[i], htts, period)]

DursMax(ps) == Duration

\* lines 521-545 for one planet: None if line 524 raises
holczer_match(p, holczer, ps) ==
    {k \in 1..Len(holczer) : np_isclose(holczer[k].hper, p.period, DursMax(ps))}

\* lines 535-542: p.index is left as it was
replace_ephemeris(p, e, fit, time_end) ==
    LET t == np_arange(fit.c0, time_end, fit.c1)
    IN  [p EXCEPT !.epoch = fit.c0, !.period = fit.c1,
                  !.tts = snap(t, holczer_tts(e, time_end), fit.c1)]

\* lines 674-698: the photometry decides the quality of each transit
Qualities(p) == [1..Len(p.tts) -> BOOLEAN]

\* lines 702-713
overlap_of(ps, i) ==
    [a \in 1..Len(ps[i].tts) |->
        \E j \in 1..Len(ps) :
            /\ j # i
            /\ \E b \in 1..Len(ps[j].tts) :
                  2 * Abs(ps[i].tts[a] - ps[j].tts[b]) < 3 * DursMax(ps)]

\* lines 1499, 1517: full_indep_ephemeris[npl] + full_omc_trend, one value
\* per entry of p.index
full_quick_of(index, fit, full_omc_trend) ==
    [j \in 1..Len(index) |-> polyval(index, fit)[j] + full_omc_trend[j]]

InitPlanets ==
    /\ pc = "initialize_planets"
    /\ TIME_END \in (MaxTimeEnd - 1)..MaxTimeEnd
    /\ \E npl \in 1..MaxPlanets :
         planets \in [1..npl -> [epoch : Epochs, period : Periods]]
    /\ CatIdle /\ SlideIdle /\ QuickIdle /\ OutIdle /\ RestIdle
    /\ DetrendIdle

\* lines 350-381
InitializePlanets ==
    /\ pc = "initialize_planets"
    /\ planets' = sort_by_period(
                     [n \in 1..Len(planets) |->
                         NewPlanet(planets[n].epoch, planets[n].period, TIME_END)])
    /\ pc' = "holczer"
    /\ UNCHANGED <<TIME_END, catVars, slideVars, quickVars, outVars, restVars>>
    /\ UNCHANGED <<gapVars, maskVars, flatVars, loopVars, ringVars, stitchVars>>

\* lines 396-545: the loop over the planets, planet by planet; line 524
\* raises when the period of a planet matches more than one Holczer period
RECURSIVE holczer_loop(_, _, _, _)
holczer_loop(ps, holczer, fits, n) ==
    IF n > Len(ps) THEN [planets |-> ps, raised |-> FALSE]
    ELSE LET match == holczer_match(ps[n], holczer, ps)
         IN  IF Cardinality(match) > 1 THEN [planets |-> ps, raised |-> TRUE]
             ELSE IF Cardinality(match) = 1
                 THEN LET loc == CHOOSE k \in match : TRUE
                      IN  holczer_loop(
                              [ps EXCEPT ![n] = replace_ephemeris(ps[n], holczer[loc], fits[loc], TIME_END)],
                              holczer, fits, n + 1)
             ELSE holczer_loop(ps, holczer, fits, n + 1)

HolczerEphemeris ==
    /\ pc = "holczer"
    /\ \E holczer \in [1..Len(planets) -> HolczerEntries(TIME_END)] :
         \E fits \in [1..Len(planets) -> UNION {polyfit_holczer(e) : e \in HolczerEntries(TIME_END) \ {NoHolczer}} \cup {[c0 |-> 0, c1 |-> NaN]}] :
            /\ \A k \in 1..Len(planets) :
                  IF holczer[k].exists THEN fits[k] \in polyfit_holczer(holczer[k])
                  ELSE fits[k] = [c0 |-> 0, c1 |-> NaN]
            /\ LET r == holczer_loop(planets, holczer, fits, 1)
               IN  /\ planets' = r.planets
                   /\ pc' = IF r.raised THEN "raised" ELSE "plot_initial"
                   /\ exception' = IF r.raised
                                   THEN "Something has gone wrong matching periods between DR25 and Holczer+ 2016"
                                   ELSE exception
    /\ UNCHANGED <<TIME_END, MISSION, target_dict, stages_run, slideVars, quickVars, outVars, restVars>>
    /\ UNCHANGED <<gapVars, maskVars, flatVars, loopVars, ringVars, stitchVars>>

\* lines 549-561: poly.polyfit(p.index, p.tts, 1) raises TypeError when the
\* two arrays differ in length
PlotInitialOMC ==
    /\ pc = "plot_initial"
    /\ IF \E n \in 1..Len(planets) : Len(planets[n].index) # Len(planets[n].tts)
       THEN /\ pc' = "raised"
            /\ exception' = "expected x and y to have same length"
       ELSE /\ pc' = "flag_quality"
            /\ exception' = exception
    /\ UNCHANGED <<TIME_END, planets, MISSION, target_dict, stages_run, slideVars, quickVars, outVars, restVars>>
    /\ UNCHANGED <<gapVars, maskVars, flatVars, loopVars, ringVars, stitchVars>>

\* lines 667-726: quality and overlap flags; line 726 raises ValueError for
\* a planet without a transit of good quality
FlagQuality ==
    /\ pc = "flag_quality"
    /\ \E qs \in [1..Len(planets) -> UNION {Qualities(planets[n]) : n \in 1..Len(planets)}] :
         /\ \A n \in 1..Len(planets) : qs[n] \in Qualities(planets[n])
         /\ planets' = [n \in 1..Len(planets) |->
                           [planets[n] EXCEPT !.quality = qs[n],
                                              !.overlap = overlap_of(planets, n)]]
         /\ IF \E n \in 1..Len(planets) : \A i \in 1..Len(qs[n]) : ~qs[n][i]
            THEN /\ pc' = "raised"
                 /\ exception' = "zero-size array to reduction operation minimum which has no identity"
            ELSE /\ pc' = "update_ttvs"
                 /\ exception' = exception
    /\ UNCHANGED <<TIME_END, MISSION, target_dict, stages_run, slideVars, quickVars, outVars, restVars>>
    /\ UNCHANGED <<gapVars, maskVars, flatVars, loopVars, ringVars, stitchVars>>

\* lines 1499-1517 and 1574-1580: the quick model, predicted at
\* poly.polyval(p.index, pfit), replaces p.tts; the new epoch and period are
\* those of the line through it
UpdateTTVs ==
    /\ pc = "update_ttvs"
    /\ \E shift \in {0, 1} :
         planets' = [n \in 1..Len(planets) |->
                        LET p == planets[n]
                            fit == [c0 |-> p.epoch + shift, c1 |-> p.period]
                        IN  [p EXCEPT !.epoch = fit.c0,
                                      !.tts = full_quick_of(
                                                  p.index, fit, [j \in 1..Len(p.index) |-> 0])]]
    /\ pc' = "ttvs_saved"
    /\ UNCHANGED <<TIME_END, catVars, slideVars, quickVars, outVars, restVars>>
    /\ UNCHANGED <<gapVars, maskVars, flatVars, loopVars, ringVars, stitchVars>>

NextPlanets ==
    InitializePlanets \/ HolczerEphemeris \/ PlotInitialOMC \/ FlagQuality \/ UpdateTTVs

SpecPlanets == InitPlanets /\ [][NextPlanets]_vars

\* the planets are Planet objects once they are initialised
Initialised == pc \notin {"initialize_planets"}

Flagged == pc \in {"update_ttvs", "ttvs_saved"}

\* C11: for every planet len(tts) = len(index) after initialisation, after
\* the Holczer transit times have replaced the linear ephemeris and after
\* the quick-model update; quality and overlap, once computed, have that
\* length too.
C11_SameLength ==
    Initialised =>
        \A n \in 1..Len(planets) :
            /\ Len(planets[n].tts) = Len(planets[n].index)
            /\ Flagged =>
                  /\ Len(planets[n].quality) = Len(planets[n].tts)
                  /\ Len(planets[n].overlap) = Len(planets[n].tts)

(***************************************************************************)
(* Transit times of one planet by cross-correlation ("slide"), the flags   *)
(* of failed fits, the choice of the transits to refit and the merge of    *)
(* the independent refit.  The loops over the planets treat each planet on *)
(* its own: the variables hold the entries [npl] of the script's lists.    *)
(* Times are integers, GridStep of them to one step of the search grid.    *)
(***************************************************************************)
MaxTransits == 3    \* good-quality transits of the planet

GridStep == 4

\* p.duration in steps of the search grid
DurSteps == 3

TransitSpacing == 40

Inf == 1000000

\* line 995: t0 + np.arange(-p.duration*slide_offset, p.duration*slide_offset, gridstep)
tc_vector(t0, d) == np_arange(t0 - d * GridStep, t0 + d * GridStep, GridStep)

\* The chi-square curve after boxcar_smooth (lines 996-1002), as the flux
\* near the transit shapes it: a parabola of steepness s about grid point c,
\* a flat curve, or a curve with a second minimum at the far end
ChisqVectors(d) ==
    {[j \in 1..(2 * d) |-> s * (j - c) * (j - c)] : c \in 1..(2 * d), s \in {1, 4, 30}}
    \cup {[j \in 1..(2 * d) |-> 0]}
    \cup {[j \in 1..(2 * d) |-> IF j <= 3 \/ j = 2 * d THEN 0 ELSE 20]}

np_median2(x) == IF x = <<>> THEN NaN ELSE median2(x)

\* lines 1018-1019
faraway(tcfit) ==
    LET spacing2 == np_median2(np_diff(tcfit))
        med2 == np_median2(tcfit)
    IN  [j \in 1..Len(tcfit) |->
            /\ ~isnan(spacing2)
            /\ 2 * Abs(2 * tcfit[j] - med2) > spacing2 * (2 + Len(tcfit))]

\* lines 1007-1029: the points near the minimum of chi-square, the threshold
\* raised by one until three points remain or it has reached 9
\* lines 1024-1029 with the second test one step later
stop_loop_late(x2fit, delta_chisq) == Len(x2fit) >= 3 \/ delta_chisq >= 10

\* lines 1024-1029: the stopping conditions of the while loop
stop_loop(x2fit, delta_chisq) == Len(x2fit) >= 3 \/ delta_chisq >= 9

\* lines 1004-1029: the loop, entered with delta_chisq = 1; the result also
\* carries the threshold on exit and the number of passes
RECURSIVE grab_points(_, _, _)
grab_points(chisq_vector, tc, delta_chisq) ==
    LET d == delta_chisq + 1
        min_chisq == np_min(chisq_vector)
        far == [j \in 1..Len(tc) |-> ~(chisq_vector[j] < min_chisq + d)]
        tcfit0 == Compress(tc, far)
        x2fit0 == Compress(chisq_vector, far)
        away == faraway(tcfit0)
        tcfit == Compress(tcfit0, away)
        x2fit == Compress(x2fit0, away)
    IN  IF stop_loop(x2fit, d)
        THEN [tcfit |-> tcfit, x2fit |-> x2fit, delta_chisq |-> d, iterations |-> 1]
        ELSE LET r == grab_points(chisq_vector, tc, d)
             IN  [r EXCEPT !.iterations = r.iterations + 1]

\* leading coefficients of the fitted parabola and sqrt(1/a) for each
LeadCoeffs == {-1, 0, 1, 100}

qtc_err(a) ==
    IF a < 0 THEN NaN
    ELSE IF a = 0 THEN Inf
    ELSE IF a = 1 THEN 10
    ELSE 1

\* vertices -b/(2a) of the fitted parabola: at the median of the retained
\* points, beyond the last retained point, or left of the search window
Vertices(tcfit, t0, d) ==
    LET med == np_median2(tcfit) \div 2
    IN  {med, 2 * np_max(tcfit) - med + 2, 2 * (t0 - d * GridStep) - med - 2}

\* lines 1037-1058 without the test of the leading coefficient
fit_parabola_any_sign(tcfit, a, qtc_min) ==
    LET t == (2 * qtc_min + np_median2(tcfit)) \div 4
    IN  IF t < np_min(tcfit) \/ t > np_max(tcfit)
        THEN [tts |-> NaN, err |-> NaN]
        ELSE [tts |-> t, err |-> qtc_err(a)]

\* lines 1037-1058: np.mean([qtc_min, np.median(tcfit)]) and qtc_err, NaN
\* for a parabola that opens downward and for a time outside tcfit
fit_parabola(tcfit, a, qtc_min) ==
    LET t == (2 * qtc_min + np_median2(tcfit)) \div 4
    IN  IF a <= 0 THEN [tts |-> NaN, err |-> NaN]
        ELSE IF t < np_min(tcfit) \/ t > np_max(tcfit)
        THEN [tts |-> NaN, err |-> NaN]
        ELSE [tts |-> t, err |-> qtc_err(a)]

\* lines 972-1081 for one transit, g the points that lines 1007-1029 retain
slide_fit(overlaps, g, a, qtc_min) ==
    IF overlaps THEN [tts |-> NaN, err |-> NaN]
    ELSE IF Len(g.tcfit) < 3 THEN [tts |-> NaN, err |-> NaN]
    ELSE fit_parabola(g.tcfit, a, qtc_min)

\* np.nanmedian, doubled
np_nanmedian2(x) == np_median2(Compress(x, [i \in 1..Len(x) |-> isnan(x[i])]))

\* lines 1088-1089 without the test against the median
slide_bad_nan_only(t, e) == [i \in 1..Len(t) |-> isnan(t[i]) \/ isnan(e[i])]

\* lines 1088-1089
slide_bad(t, e) ==
    LET med2 == np_nanmedian2(e)
    IN  [i \in 1..Len(t) |->
            \/ isnan(t[i])
            \/ isnan(e[i])
            \/ /\ ~isnan(med2)
               /\ 2 * e[i] > 8 * med2]

\* lines 1091-1092 without line 1091
flag_failed_error_only(t, e, shape) ==
    LET bad == slide_bad(t, e)
    IN  [tts |-> t,
         err |-> [i \in 1..Len(t) |-> IF bad[i] THEN NaN ELSE e[i]]]

\* lines 1087-1092
flag_failed(t, e, shape) ==
    LET bad == slide_bad(t, e)
    IN  [tts |-> [i \in 1..Len(t) |-> IF bad[i] THEN shape[i] ELSE t[i]],
         err |-> [i \in 1..Len(t) |-> IF bad[i] THEN NaN ELSE e[i]]]

\* line 1098 alone
select_refit_failed_only(e) == {[i \in 1..Len(e) |-> isnan(e[i])]}

\* lines 1098-1103: np.random.randint(len, size=2) draws two places, which
\* may coincide
select_refit(e) ==
    LET failed == [i \in 1..Len(e) |-> isnan(e[i])]
    IN  IF \A i \in 1..Len(e) : ~failed[i]
        THEN {[i \in 1..Len(e) |-> i = a \/ i = b] : a \in 1..Len(e), b \in 1..Len(e)}
        ELSE {failed}

\* lines 1207-1208: shape_transit_times[use] + tt_offset * durs / 3, one
\* value per refit transit
map_tts(shape, use, tt_offset) ==
    LET used == Compress(shape, [i \in 1..Len(shape) |-> ~use[i]])
    IN  [k \in 1..Len(used) |-> used[k] + tt_offset]

\* lines 1256-1262: x[replace] = values
RECURSIVE put(_, _, _)
put(x, replace, values) ==
    IF x = <<>> THEN <<>>
    ELSE IF Head(replace)
         THEN <<Head(values)>> \o put(Tail(x), Tail(replace), Tail(values))
         ELSE <<Head(x)>> \o put(Tail(x), Tail(replace), values)

InitSlide ==
    /\ pc = "slide_fit"
    /\ \E n \in 1..MaxTransits :
         /\ shape_transit_times = [i \in 1..n |-> TransitSpacing * i]
         /\ p_overlap \in [1..n -> BOOLEAN]
    /\ slide_transit_times = <<>>
    /\ slide_error = <<>>
    /\ slide_fits = <<>>
    /\ fit_log = NoFit
    /\ refit = <<>>
    /\ indep_transit_times = <<>>
    /\ indep_error = <<>>
    /\ CatIdle /\ PlanIdle /\ QuickIdle /\ OutIdle /\ RestIdle
    /\ DetrendIdle

\* lines 972-1081 for the transit at t0: every result the flux near the
\* transit can lead to, with what the fit found
SlideOutcomes(t0, overlaps) ==
    IF overlaps
    THEN {[tts |-> NaN, err |-> NaN, log |-> [NoFit EXCEPT !.overlap = TRUE]]}
    ELSE UNION {
        LET g == grab_points(chisq_vector, tc_vector(t0, DurSteps), 1)
        IN  IF Len(g.tcfit) < 3
            THEN {[tts |-> NaN, err |-> NaN, log |-> [NoFit EXCEPT !.npts = Len(g.tcfit),
                                              !.delta_chisq = g.delta_chisq,
                                              !.iterations = g.iterations]]}
            ELSE {[tts |-> slide_fit(overlaps, g, a, qtc_min).tts,
                   err |-> slide_fit(overlaps, g, a, qtc_min).err,
                   log |-> [overlap |-> FALSE, npts |-> Len(g.tcfit), a |-> a,
                            recovered |-> (2 * qtc_min + np_median2(g.tcfit)) \div 4,
                            fitted |-> TRUE, delta_chisq |-> g.delta_chisq,
                            iterations |-> g.iterations]] :
                      a \in LeadCoeffs, qtc_min \in Vertices(g.tcfit, t0, DurSteps)}
        : chisq_vector \in ChisqVectors(DurSteps)}

ShapeTimes == {TransitSpacing * i : i \in 1..MaxTransits}

SlideTable == [t0 \in ShapeTimes |-> [o \in BOOLEAN |-> SlideOutcomes(t0, o)]]

\* lines 972-1084: the next transit of the planet
SlideFit ==
    /\ pc = "slide_fit"
    /\ LET i == Len(slide_transit_times) + 1
       IN  \E r \in SlideTable[shape_transit_times[i]][p_overlap[i]] :
              /\ slide_transit_times' = Append(slide_transit_times, r.tts)
              /\ slide_error' = Append(slide_error, r.err)
              /\ fit_log' = r.log
              /\ pc' = IF i = Len(shape_transit_times) THEN "flag_failed" ELSE "slide_fit"
    /\ UNCHANGED <<shape_transit_times, p_overlap, slide_fits, refit,
                   indep_transit_times, indep_error>>
    /\ UNCHANGED <<catVars, planVars, quickVars, outVars, restVars>>
    /\ UNCHANGED <<gapVars, maskVars, flatVars, loopVars, ringVars, stitchVars>>

\* lines 1086-1092
FlagFailed ==
    /\ pc = "flag_failed"
    /\ slide_fits' = [tts |-> slide_transit_times, err |-> slide_error]
    /\ LET r == flag_failed(slide_transit_times, slide_error, shape_transit_times)
       IN  /\ slide_transit_times' = r.tts
           /\ slide_error' = r.err
    /\ pc' = "select_refit"
    /\ UNCHANGED <<shape_transit_times, p_overlap, fit_log, refit,
                   indep_transit_times, indep_error>>
    /\ UNCHANGED <<catVars, planVars, quickVars, outVars, restVars>>
    /\ UNCHANGED <<gapVars, maskVars, flatVars, loopVars, ringVars, stitchVars>>

\* lines 1095-1103
SelectRefit ==
    /\ pc = "select_refit"
    /\ refit' \in select_refit(slide_error)
    /\ pc' = "indep_fit"
    /\ UNCHANGED <<shape_transit_times, p_overlap, slide_transit_times,
                   slide_error, slide_fits, fit_log, indep_transit_times, indep_error>>
    /\ UNCHANGED <<catVars, planVars, quickVars, outVars, restVars>>
    /\ UNCHANGED <<gapVars, maskVars, flatVars, loopVars, ringVars, stitchVars>>

\* lines 1133-1270: the optimiser moves every refit transit by tt_offset
\* from its shape-model time; the times of the failed transits replace the
\* slide times and their error becomes the scatter about the linear ephemeris
IndepFit ==
    /\ pc = "indep_fit"
    /\ \E tt_offset \in {0, 1}, scatter \in {0, 2} :
         LET replace == [i \in 1..Len(slide_error) |-> isnan(slide_error[i])]
             tts_map == map_tts(shape_transit_times, refit, tt_offset)
         IN  /\ indep_transit_times' =
                    IF \E i \in 1..Len(replace) : replace[i]
                    THEN put(slide_transit_times, replace, tts_map)
                    ELSE slide_transit_times
             /\ indep_error' =
                    [i \in 1..Len(slide_error) |->
                        IF replace[i] THEN scatter ELSE slide_error[i]]
    /\ pc' = "indep_done"
    /\ UNCHANGED <<shape_transit_times, p_overlap, slide_transit_times,
                   slide_error, slide_fits, fit_log, refit>>
    /\ UNCHANGED <<catVars, planVars, quickVars, outVars, restVars>>
    /\ UNCHANGED <<gapVars, maskVars, flatVars, loopVars, ringVars, stitchVars>>

NextSlide == SlideFit \/ FlagFailed \/ SelectRefit \/ IndepFit

SpecSlide == InitSlide /\ [][NextSlide]_vars

\* the transit fitted last, and one duration in time units
LastFit == Len(slide_transit_times)

OneDuration == DurSteps * GridStep

\* the fit of the last transit is one the claim says is rejected
Rejected ==
    \/ fit_log.overlap
    \/ fit_log.npts < 3
    \/ /\ fit_log.fitted
       /\ \/ fit_log.a <= 0
          \/ fit_log.recovered < shape_transit_times[LastFit] - OneDuration
          \/ fit_log.recovered > shape_transit_times[LastFit] + OneDuration

\* C13: the cross-correlation stage sets a transit time and its error to NaN
\* whenever fewer than 3 points are retained, the leading coefficient of the
\* parabola is <= 0, the recovered time lies outside the search window or
\* the transit overlaps another planet's; every finite slide time lies
\* within one duration of the shape-model time of its transit.
C13_SlideRejects ==
    (pc \in {"slide_fit", "flag_failed"} /\ LastFit > 0) =>
        /\ Rejected =>
              /\ isnan(slide_transit_times[LastFit])
              /\ isnan(slide_error[LastFit])
        /\ \A j \in 1..LastFit :
              ~isnan(slide_transit_times[j]) =>
                  Abs(slide_transit_times[j] - shape_transit_times[j]) <= OneDuration

\* C13: the last transit was fitted with a parabola that opens downward and
\* is NaN, and an earlier transit has a finite time off its shape-model time
C13_Witness ==
    /\ pc = "flag_failed"
    /\ fit_log.fitted /\ fit_log.a < 0
    /\ isnan(slide_transit_times[LastFit])
    /\ \E j \in 1..LastFit :
          /\ ~isnan(slide_transit_times[j])
          /\ slide_transit_times[j] # shape_transit_times[j]

\* the fit of transit i failed: its slide time or error was NaN, or the
\* error exceeded 8 times the median of the planet's errors
FiniteErrors == Compress(slide_fits.err, [i \in 1..Len(slide_fits.err) |-> isnan(slide_fits.err[i])])

ExceedsMedian(i) ==
    /\ ~isnan(slide_fits.err[i])
    /\ FiniteErrors # <<>>
    /\ 2 * slide_fits.err[i] > 8 * median2(FiniteErrors)

Failed(i) ==
    \/ isnan(slide_fits.tts[i])
    \/ isnan(slide_fits.err[i])
    \/ ExceedsMedian(i)

AfterFlagging == pc \in {"select_refit", "indep_fit", "indep_done"}

\* C14: after the failure-flagging step a transit whose slide time or error
\* was NaN, or whose error exceeded 8 times the planet's median error, has
\* the shape-model time and a NaN error; every other transit keeps its slide
\* time and error; no slide time is NaN.
C14_FlagFailed ==
    AfterFlagging =>
        \A i \in 1..Len(slide_transit_times) :
            /\ Failed(i) =>
                  /\ slide_transit_times[i] = shape_transit_times[i]
                  /\ isnan(slide_error[i])
            /\ ~Failed(i) =>
                  /\ slide_transit_times[i] = slide_fits.tts[i]
                  /\ slide_error[i] = slide_fits.err[i]
            /\ ~isnan(slide_transit_times[i])

\* C14: a transit with a finite slide time and error has been rejected for
\* its error, next to one that kept a slide time off its shape-model time
C14_Witness ==
    /\ pc = "select_refit"
    /\ \E i, k \in 1..Len(slide_transit_times) :
          /\ ~isnan(slide_fits.tts[i]) /\ ExceedsMedian(i) /\ isnan(slide_error[i])
          /\ slide_fits.tts[i] # shape_transit_times[i]
          /\ slide_transit_times[i] = shape_transit_times[i]
          /\ ~Failed(k) /\ slide_transit_times[k] # shape_transit_times[k]

RefitSet == {i \in 1..Len(refit) : refit[i]}

FailedSet == {i \in 1..Len(slide_error) : isnan(slide_error[i])}

\* C15 as stated: the transits given a free time offset in the independent
\* refit are exactly those whose cross-correlation fit failed, also when no
\* fit of the planet failed.
C15_Original ==
    pc \in {"indep_fit", "indep_done"} => RefitSet = FailedSet

\* C15 amended: the transits given a free time offset in the independent
\* refit are exactly those whose cross-correlation fit failed when at least
\* one fit of the planet failed; when none failed they are one or two
\* transits drawn at random.
C15_RefitSet ==
    pc \in {"indep_fit", "indep_done"} =>
        IF FailedSet # {} THEN RefitSet = FailedSet
        ELSE Cardinality(RefitSet) \in {1, 2}

\* C15: some fits of the planet failed and some did not, and the refit set
\* has been chosen
C15_Witness ==
    /\ pc = "indep_fit"
    /\ FailedSet # {}
    /\ FailedSet # 1..Len(slide_error)
    /\ RefitSet = FailedSet

\* C16: failed cross-correlation fits do not stop the pipeline: each failed
\* transit has its shape-model time and a NaN error, is in the refit set of
\* the independent stage, and the independent series holds a finite time
\* for every transit.
C16_FailedFitsNonFatal ==
    /\ pc \in {"slide_fit", "flag_failed", "select_refit", "indep_fit", "indep_done"}
    /\ pc = "select_refit" => ENABLED SelectRefit
    /\ pc = "indep_fit" => ENABLED IndepFit
    /\ pc \in {"indep_fit", "indep_done"} =>
          \A i \in 1..Len(slide_transit_times) :
              Failed(i) =>
                  /\ slide_transit_times[i] = shape_transit_times[i]
                  /\ isnan(slide_error[i])
                  /\ refit[i]
    /\ pc = "indep_done" =>
          /\ Len(indep_transit_times) = Len(shape_transit_times)
          /\ \A i \in 1..Len(indep_transit_times) : ~isnan(indep_transit_times[i])

\* C16: the fit of every one of three transits of the planet failed, and the
\* independent stage has moved each of them off its shape-model time
C16_Witness ==
    /\ pc = "indep_done"
    /\ Len(shape_transit_times) = 3
    /\ \A i \in 1..3 :
          /\ isnan(slide_fits.tts[i])
          /\ ~isnan(indep_transit_times[i])
          /\ indep_transit_times[i] # shape_transit_times[i]

(***************************************************************************)
(* O-C model selection for one planet: the linear ephemeris through the    *)
(* independent times, the candidate trend models and their AIC, the refit  *)
(* of the chosen model at every transit index, and what is saved.          *)
(* planets holds the one Planet object; the independent transit times of   *)
(* its good transits lie exactly on the line p.epoch + p.period * index.   *)
(***************************************************************************)
MaxIndex == 9       \* transits of the planet: len(p.index) ranges over 2..MaxIndex
MaxSkip == 2        \* leading transits of the planet that are not of good quality

QuickEpoch == 5

QuickPeriod == 10

\* lines 721-726
transit_inds_of(p) ==
    LET imin == np_min(p.index)
        good == Compress([i \in 1..Len(p.index) |-> p.index[i] - imin],
                         [i \in 1..Len(p.index) |-> ~p.quality[i]])
    IN  [k \in 1..Len(good) |-> good[k] - np_min(good)]

\* line 1264: poly.polyfit(x, y, 1) for points that lie on one line
polyfit_line(x, y) ==
    LET c1 == (y[Len(y)] - y[1]) \div (x[Len(x)] - x[1])
    IN  [c0 |-> y[1] - c1 * x[1], c1 |-> c1]

\* lines 1422-1423: yomc is zero throughout, so is yomc - ymed and its
\* mad_std, and 0/0 > 5.0 is False
prelim_out(yomc) == [i \in 1..Len(yomc) |-> FALSE]

\* lines 1432-1434
max_polyorder_of(out) ==
    LET ngood == Cardinality({i \in 1..Len(out) : ~out[i]})
    IN  IF ngood >= 16 THEN 3 ELSE IF ngood >= 8 THEN 2 ELSE 1

\* lines 1437-1442 and 1501-1506
omc_model_kind(polyorder) ==
    IF polyorder = -1 THEN "matern32_model"
    ELSE IF polyorder = 0 THEN "sin_model"
    ELSE "poly_model"

\* Foreground probabilities in tenths as the mixture model gives them: no
\* point, the first or the last point belongs to the background
FgProbs(n) ==
    {[i \in 1..n |-> 8],
     [i \in 1..n |-> IF i = 1 THEN 2 ELSE 8],
     [i \in 1..n |-> IF i = n THEN 2 ELSE 8]}

\* omc.flag_outliers: a point is an outlier when its background probability
\* exceeds its foreground probability
flag_outliers(fg_prob) == [i \in 1..Len(fg_prob) |-> 10 - fg_prob[i] > fg_prob[i]]

\* residuals of a candidate: r at the foreground points, 30 at the others
TrendResiduals == {0, 9, 10}

residuals_of(r, bad) == [i \in 1..Len(bad) |-> IF bad[i] THEN 30 ELSE r]

\* np.log in millionths, for the products of 2, 3, 5, 7, 11 and 13
RECURSIVE np_log(_)
np_log(x) ==
    IF x = 1 THEN 0
    ELSE IF x % 2 = 0 THEN 693147 + np_log(x \div 2)
    ELSE IF x % 3 = 0 THEN 1098612 + np_log(x \div 3)
    ELSE IF x % 5 = 0 THEN 1609438 + np_log(x \div 5)
    ELSE IF x % 7 = 0 THEN 1945910 + np_log(x \div 7)
    ELSE IF x % 11 = 0 THEN 2397895 + np_log(x \div 11)
    ELSE 2564949 + np_log(x \div 13)

\* k = polyorder + 1 for every candidate
aic_k_polyorder(polyorder) == polyorder + 1

\* lines 1480-1483
aic_k(polyorder) == IF polyorder <= 0 THEN 3 ELSE polyorder + 1

\* lines 1478-1485: n*np.log(np.sum(residuals[~bad]**2)/np.sum(~bad)) + 2*k,
\* in millionths; np.log(0) is -inf
aic_of(residuals, bad, polyorder) ==
    LET n == Len(residuals)
        inl == Compress(residuals, bad)
        ss == SumSeq([i \in 1..Len(inl) |-> inl[i] * inl[i]])
    IN  IF ss = 0 THEN -Inf
        ELSE n * (np_log(ss) - np_log(Len(inl))) + 2 * aic_k(polyorder) * 1000000

\* np.argmin (0-based): the first place that holds the minimum
np_argmin(x) == (CHOOSE i \in 1..Len(x) :
                    /\ \A j \in 1..Len(x) : x[i] <= x[j]
                    /\ \A j \in 1..(i - 1) : x[j] > x[i]) - 1

InitQuick ==
    /\ pc = "count_transits"
    /\ \E n \in 2..MaxIndex, skip \in 0..MaxSkip :
         /\ n - skip >= 2
         /\ planets = <<[epoch |-> QuickEpoch, period |-> QuickPeriod, duration |-> Duration,
                         tts |-> [i \in 1..n |-> QuickEpoch + QuickPeriod * (i - 1)],
                         index |-> [i \in 1..n |-> i - 1],
                         quality |-> [i \in 1..n |-> i > skip],
                         overlap |-> [i \in 1..n |-> FALSE]]>>
         /\ TIME_END = QuickEpoch + QuickPeriod * n - 1
    /\ QuickIdle /\ OutIdle /\ RestIdle
    /\ CatIdle /\ SlideIdle
    /\ DetrendIdle

\* lines 716-726 and, for times on the line of the planet, lines 1255-1267
IndepEphemeris ==
    /\ pc = "count_transits"
    /\ LET p == planets[1]
           inds == transit_inds_of(p)
           itt == Compress(p.tts, [i \in 1..Len(p.tts) |-> ~p.quality[i]])
           fit == polyfit_line(inds, itt)
       IN  /\ transit_inds' = inds
           /\ indep_transit_times' = itt
           /\ pfit' = fit
           /\ full_indep_ephemeris' = polyval(p.index, fit)
    /\ pc' = "candidates"
    /\ UNCHANGED <<candidates, aiclist, fgplist, outlist, omc_refit,
                   full_quick_transit_times, quick_transit_times, outlier_prob,
                   outlier_class>>
    /\ UNCHANGED <<shape_transit_times, p_overlap, slide_transit_times, slide_error,
                   slide_fits, fit_log, refit, indep_error>>
    /\ UNCHANGED <<catVars, planVars, outVars, restVars>>
    /\ UNCHANGED <<gapVars, maskVars, flatVars, loopVars, ringVars, stitchVars>>

\* lines 1436-1492: the next candidate of the loop
FitCandidate ==
    /\ pc = "candidates"
    /\ LET n == Len(indep_transit_times)
           out == prelim_out([i \in 1..n |-> 0])
           polyorder == Len(aiclist) - 1
       IN  /\ polyorder <= max_polyorder_of(out)
           /\ \E r \in TrendResiduals, fg_prob \in FgProbs(n) :
                 LET bad == flag_outliers(fg_prob)
                     residuals == residuals_of(r, bad)
                 IN  /\ candidates' = Append(candidates,
                            [kind |-> omc_model_kind(polyorder), polyorder |-> polyorder,
                             residuals |-> residuals, bad |-> bad, fg_prob |-> fg_prob])
                     /\ fgplist' = Append(fgplist, fg_prob)
                     /\ outlist' = Append(outlist, bad)
                     /\ aiclist' = Append(aiclist, aic_of(residuals, bad, polyorder))
           /\ pc' = "candidates"
    /\ UNCHANGED <<transit_inds, pfit, full_indep_ephemeris, omc_refit,
                   full_quick_transit_times, quick_transit_times, outlier_prob,
                   outlier_class>>
    /\ UNCHANGED <<slideVars, catVars, planVars, outVars, restVars>>
    /\ UNCHANGED <<gapVars, maskVars, flatVars, loopVars, ringVars, stitchVars>>

\* lines 1521: bad is the variable the last pass of the candidate loop set
save_outlier_class(olist, best) == olist[Len(olist)]

\* lines 1495-1521: the best candidate is fitted again and predicts at
\* full_indep_ephemeris; the trend it predicts is the same at every transit
ChooseBest ==
    /\ pc = "candidates"
    /\ LET n == Len(indep_transit_times)
           out0 == prelim_out([i \in 1..n |-> 0])
       IN  Len(aiclist) - 1 > max_polyorder_of(out0)
    /\ LET best == np_argmin(aiclist)
           out == outlist[best + 1]
           fg_prob == fgplist[best + 1]
           polyorder == best - 1
       IN  \E trend \in {0, 1} :
             LET full_omc_trend == [j \in 1..Len(full_indep_ephemeris) |-> trend]
                 fq == [j \in 1..Len(full_indep_ephemeris) |->
                           full_indep_ephemeris[j] + full_omc_trend[j]]
             IN  /\ omc_refit' = [kind |-> omc_model_kind(polyorder),
                                  polyorder |-> polyorder, out |-> out, trend |-> trend]
                 /\ full_quick_transit_times' = fq
                 /\ quick_transit_times' = [k \in 1..Len(transit_inds) |-> fq[transit_inds[k] + 1]]
                 /\ outlier_prob' = [i \in 1..Len(fg_prob) |-> 10 - fg_prob[i]]
                 /\ outlier_class' = save_outlier_class(outlist, best)
    /\ pc' = "chosen"
    /\ UNCHANGED <<transit_inds, pfit, full_indep_ephemeris, candidates, aiclist,
                   fgplist, outlist>>
    /\ UNCHANGED <<slideVars, catVars, planVars, outVars, restVars>>
    /\ UNCHANGED <<gapVars, maskVars, flatVars, loopVars, ringVars, stitchVars>>

NextQuick == IndepEphemeris \/ FitCandidate \/ ChooseBest

SpecQuick == InitQuick /\ [][NextQuick]_vars

\* the candidate the refit is made of
Selected == candidates[omc_refit.polyorder + 2]

\* AIC = n*log(mean squared residual over inliers) + 2k, in millionths
StatedK(c) == IF c.kind = "poly_model" THEN c.polyorder + 1 ELSE 3

StatedAIC(c) ==
    LET n == Len(c.residuals)
        sq == [i \in 1..n |-> IF c.bad[i] THEN 0 ELSE c.residuals[i] * c.residuals[i]]
        ninl == Cardinality({i \in 1..n : ~c.bad[i]})
    IN  IF SumSeq(sq) = 0 THEN -Inf
        ELSE n * (np_log(SumSeq(sq)) - np_log(ninl)) + 2 * StatedK(c) * 1000000

\* C17: the model refit for the final quick series is the candidate with the
\* smallest AIC among Matern-3/2, sinusoid and the polynomials of order
\* 1..max_polyorder, with AIC = n*log(mean squared residual over inliers) + 2k,
\* k = 3 for Matern and sinusoid and polyorder + 1 for a polynomial; the refit
\* uses that candidate's kind, order and outlier flags.
C17_SmallestAIC ==
    pc = "chosen" =>
        /\ candidates[1].kind = "matern32_model"
        /\ candidates[2].kind = "sin_model"
        /\ \A k \in 3..Len(candidates) :
              candidates[k].kind = "poly_model" /\ candidates[k].polyorder = k - 2
        /\ Len(candidates) >= 3
        /\ \A k \in 1..Len(candidates) : StatedAIC(Selected) <= StatedAIC(candidates[k])
        /\ omc_refit.kind = Selected.kind
        /\ omc_refit.polyorder = Selected.polyorder
        /\ omc_refit.out = Selected.bad

\* C17 witness: a first-order polynomial is chosen among four candidates
\* although the Matern candidate has the smaller mean squared residual, and
\* the chosen candidate flags an outlier.
C17_Witness ==
    /\ pc = "chosen"
    /\ Len(candidates) = 4
    /\ omc_refit.kind = "poly_model"
    /\ omc_refit.polyorder = 1
    /\ candidates[1].residuals[2] = 9
    /\ Selected.residuals[2] = 10
    /\ \E i \in 1..Len(omc_refit.out) : omc_refit.out[i]

\* C18: the outlier class and the outlier probability saved for a transit
\* both come from the AIC-selected candidate: the class is true exactly when
\* that candidate's background probability exceeds its foreground
\* probability, so the class agrees with the probability of the same row.
C18_ClassFromSelected ==
    pc = "chosen" =>
        /\ Len(outlier_class) = Len(outlier_prob)
        /\ \A i \in 1..Len(outlier_prob) :
              /\ outlier_prob[i] = 10 - Selected.fg_prob[i]
              /\ outlier_class[i] <=> (outlier_prob[i] > 10 - outlier_prob[i])

\* C19: the final quick series has one entry per transit index of the planet
\* and entry j is the prediction for the transit numbered p.index[j], also
\* when the first transits are not of good quality: no transit is missing at
\* the start and none lies beyond the observed baseline.
C19_EveryTransitIndex ==
    pc = "chosen" =>
        LET p == planets[1]
        IN  /\ Len(full_quick_transit_times) = Len(p.index)
            /\ \A j \in 1..Len(p.index) :
                  /\ full_quick_transit_times[j]
                        = p.epoch + p.period * p.index[j] + omc_refit.trend
                  /\ full_quick_transit_times[j] - omc_refit.trend < TIME_END

(***************************************************************************)
(* Outlier flagging on the transit model, for one quarter that holds a     *)
(* transit of the one planet.  Times are cadence numbers, the flux is in   *)
(* hundredths, the transit has one cadence and the depth TransitDepth.     *)
(***************************************************************************)
MaxCadences == 6    \* cadences of the quarter range over 3..MaxCadences

FluxOut == 100

TransitDepth == 20

FluxValues == {FluxOut - TransitDepth, FluxOut - 1, FluxOut + 1}

\* lines 1632-1633: (tt > t_.min())*(tt < t_.max())
in_quarter(tt, t) == [k \in 1..Len(tt) |-> tt[k] > np_min(t) /\ tt[k] < np_max(t)]

\* tt[use]
Take(tt, use) == Compress(tt, [k \in 1..Len(use) |-> ~use[k]])

\* lines 1649-1663 and 1675-1689: 1.0 + the light curve of the transits at tts
model_flux_of(t, tt) ==
    [c \in 1..Len(t) |->
        IF \E k \in 1..Len(tt) : 2 * Abs(t[c] - tt[k]) <= Duration
        THEN FluxOut - TransitDepth ELSE FluxOut]

\* lines 1669 and 1694
residuals_flux(f, model_flux) == [c \in 1..Len(f) |-> f[c] - model_flux[c]]

\* lines 1635-1642: the transit times handed to the two models
tts_i_of(itt, qtt, t) == Take(itt, in_quarter(itt, t))

tts_q_of(itt, qtt, t) == Take(itt, in_quarter(qtt, t))

\* lines 1727-1728: np.abs(res - np.mean(res))/astropy.stats.mad_std(res) > 5.0,
\* with x/0 > 5.0 True for x > 0 and 0/0 > 5.0 False
mad_outliers(res) ==
    LET n == Len(res)
        s == SumSeq(res)
        med2 == median2(res)
        m4 == median2([c \in 1..n |-> Abs(2 * res[c] - med2)])
    IN  [c \in 1..n |-> 4 * MadUnit * Abs(n * res[c] - s) > 5 * MadScale * m4 * n]

\* line 1730
bad_both(bad_i, bad_q) == [c \in 1..Len(bad_i) |-> bad_i[c] /\ bad_q[c]]

InitOutliers ==
    /\ pc = "residuals"
    /\ \E n \in 3..MaxCadences :
         /\ t_ = [c \in 1..n |-> c]
         /\ f_ \in [1..n -> FluxValues]
         /\ \E a \in 2..(n - 1), b \in 2..(n - 1) :
               /\ indep_transit_times = <<a, a + QuickPeriod>>
               /\ quick_transit_times = <<b, b + QuickPeriod>>
    /\ transit_inds = <<0, 1>>
    /\ res_i = <<>>
    /\ res_q = <<>>
    /\ bad_lc = <<>>
    /\ pfit = <<>>
    /\ full_indep_ephemeris = <<>>
    /\ candidates = <<>>
    /\ aiclist = <<>>
    /\ fgplist = <<>>
    /\ outlist = <<>>
    /\ omc_refit = <<>>
    /\ full_quick_transit_times = <<>>
    /\ outlier_prob = <<>>
    /\ outlier_class = <<>>
    /\ shape_transit_times = <<>>
    /\ p_overlap = <<>>
    /\ slide_transit_times = <<>>
    /\ slide_error = <<>>
    /\ slide_fits = <<>>
    /\ fit_log = NoFit
    /\ refit = <<>>
    /\ indep_error = <<>>
    /\ CatIdle /\ PlanIdle /\ RestIdle
    /\ DetrendIdle

\* lines 1603-1694
QuarterResiduals ==
    /\ pc = "residuals"
    /\ LET itt == indep_transit_times
           qtt == quick_transit_times
       IN  /\ res_i' = residuals_flux(f_, model_flux_of(t_, tts_i_of(itt, qtt, t_)))
           /\ res_q' = residuals_flux(f_, model_flux_of(t_, tts_q_of(itt, qtt, t_)))
    /\ pc' = "flag"
    /\ UNCHANGED <<t_, f_, bad_lc>>
    /\ UNCHANGED <<catVars, planVars, slideVars, quickVars, restVars>>
    /\ UNCHANGED <<gapVars, maskVars, flatVars, loopVars, ringVars, stitchVars>>

\* lines 1712-1738
FlagOutliers ==
    /\ pc = "flag"
    /\ bad_lc' = bad_both(mad_outliers(res_i), mad_outliers(res_q))
    /\ pc' = "flagged"
    /\ UNCHANGED <<t_, f_, res_i, res_q>>
    /\ UNCHANGED <<catVars, planVars, slideVars, quickVars, restVars>>
    /\ UNCHANGED <<gapVars, maskVars, flatVars, loopVars, ringVars, stitchVars>>

NextOutliers == QuarterResiduals \/ FlagOutliers

SpecOutliers == InitOutliers /\ [][NextOutliers]_vars

\* the residuals under the flux model built from the transit times tt that
\* fall in the quarter
ResidualsUnder(tt) == residuals_flux(f_, model_flux_of(t_, Take(tt, in_quarter(tt, t_))))

\* C20: a cadence of a quarter with transits is flagged as a bad outlier only
\* if its residual exceeds 5 robust sigma both under the flux model built from
\* the independent transit times and under the flux model built from the
\* quick-model transit times.
C20_BothModels ==
    pc = "flagged" =>
        \A c \in 1..Len(bad_lc) :
            bad_lc[c] => /\ mad_outliers(ResidualsUnder(indep_transit_times))[c]
                         /\ mad_outliers(ResidualsUnder(quick_transit_times))[c]

\* C22: in the list returned by identify_gaps any two consecutive boundaries
\* are at least break_tolerance apart, including the last pair when the end
\* boundary is kept in place of the boundary before it.
C22_BoundariesApart ==
    pc = "gaps_returned" =>
        \A j \in 2..Len(gaps) : gaps[j] - gaps[j - 1] >= break_tolerance

\* the place of cadence p among the unmasked cadences
UnmaskedRank(mask, p) == Cardinality({q \in 1..p : ~mask[q]})

\* the mean of segment k at time t: flux0, times the ramp that starts at the
\* first unmasked cadence of the segment when the ramp is fitted
SegmentMean(k, t) ==
    IF ~correct_ramp THEN trend_map.flux0[k + 1]
    ELSE LET t0 == np_min(Unmasked(lc_before.time,
                      [q \in 1..Len(lc_before.time) |->
                          lc_before.mask[q] \/ trend_map.seg[q] # k]))
         IN  trend_map.flux0[k + 1] * (1 + trend_map.ramp_amp[k + 1] * ramp_decay(t, t0))

\* C23: in flatten_with_gp the segments partition the cadences, and the
\* fitted mean at every unmasked cadence is the baseline flux0 of that
\* cadence's segment, with the same segment numbering for the unmasked
\* cadences as for all cadences, also when every cadence of some segment is
\* masked.
C23_SegmentMeans ==
    pc = "flatten_returned" =>
        /\ Len(trend_map.seg) = Len(lc_before.time)
        /\ \A p \in 1..Len(lc_before.time) :
              /\ trend_map.seg[p] \in 0..(Len(trend_map.flux0) - 1)
              /\ p > 1 => trend_map.seg[p] \in {trend_map.seg[p - 1], trend_map.seg[p - 1] + 1}
              /\ ~lc_before.mask[p] =>
                    LET r == UnmaskedRank(lc_before.mask, p)
                    IN  /\ trend_map.seg_[r] = trend_map.seg[p]
                        /\ trend_map.mean_[r] = SegmentMean(trend_map.seg[p], lc_before.time[p])

KernelNames == {"sigma", "P", "log_Q0", "log_dQ", "mix"}

RampNames == {"ramp_amp", "log_tau"}

\* kernel hyperparameters with the means, no ramp parameter
KernelBlock(c) ==
    /\ "flux0" \in c
    /\ {"sigma", "P", "log_Q0"} \subseteq c
    /\ c \cap RampNames = {}

\* ramp parameters, no kernel hyperparameter
RampBlock(c) == RampNames \subseteq c /\ c \cap KernelNames = {}

\* C26: the MAP optimisation of flatten_with_gp issues its block
\* optimisations in this order: per-segment means alone; means with noise
\* variance; then rounds of (kernel hyperparameters with means, followed by
\* ramp parameters when ramp correction is on), 2 rounds with ramp correction
\* and 1 without; the last call optimises all free variables jointly, and
\* ramp parameters are never optimised when ramp correction is off.
C26_OptimizeOrder ==
    pc = "flatten_returned" =>
        LET c == trend_map.calls
            rounds == IF correct_ramp THEN 2 ELSE 1
            per == IF correct_ramp THEN 2 ELSE 1
        IN  /\ Len(c) = 2 + rounds * per + 1
            /\ c[1] = {"flux0"}
            /\ c[2] = {"flux0", "log_yvar"}
            /\ \A r \in 0..(rounds - 1) :
                  /\ KernelBlock(c[3 + r * per])
                  /\ correct_ramp => RampBlock(c[4 + r * per])
            /\ c[Len(c)] = free_vars(kterm, correct_ramp)
            /\ ~correct_ramp => \A j \in 1..Len(c) : c[j] \cap RampNames = {}

\* C26 witness: a run with ramp correction returns after seven calls, and
\* its last call optimises the ramp parameters with everything else
C26_Witness ==
    /\ pc = "flatten_returned"
    /\ correct_ramp
    /\ Len(trend_map.calls) = 7
    /\ RampBlock(trend_map.calls[4]) /\ RampBlock(trend_map.calls[6])
    /\ RampNames \subseteq trend_map.calls[7]

\* C25: when an attempt of flatten_with_gp raises, the light curve's flux,
\* error, time, cadno and mask are the same as before the attempt, so the
\* next rung of the fallback ladder fits the same data and a successful run
\* divides the flux by exactly one trend.
C25_RaiseKeepsData ==
    /\ pc \in {"try_full", "try_noramp", "try_sho", "fatal"} =>
          /\ lc.flux = lc_before.flux /\ lc.error = lc_before.error
          /\ lc.time = lc_before.time /\ lc.cadno = lc_before.cadno
          /\ lc.mask = lc_before.mask
    /\ (pc = "for" /\ qi > 0) =>
          /\ Len(full_trend) = Len(lc_before.flux)
          /\ \A p \in 1..Len(full_trend) :
                lc.flux[p] * full_trend[p] = lc_before.flux[p]

\* C25 witness: the third rung normalizes a light curve after the first two
\* rungs raised
C25_Witness ==
    /\ pc = "for" /\ qi > 0
    /\ Len(calls) = 3
    /\ calls[1].raised /\ calls[2].raised /\ ~calls[3].raised
    /\ \E p \in 1..Len(full_trend) : full_trend[p] > 1 /\ lc.flux[p] # lc_before.flux[p]

\* C24: every cadence of a quarter whose time lies within the mask
\* half-width of one of a planet's transit times is masked, including
\* cadences at the start or end of a quarter whose transit center falls
\* outside that quarter's observed time range.
C24_InTransitMasked ==
    pc = "mask_returned" =>
        \A i \in 1..Len(lc.time) :
            (\E j \in 1..Len(tts) : Abs(lc.time[i] - tts[j]) < masksize) => transitmask[i]

(***************************************************************************)
(* From the first detrending to the data of the second (long cadence):     *)
(* the raw quarters, the stitched light curve of the first pass, the kind  *)
(* of every quarter, the outlier flags and the reset to the raw data.      *)
(***************************************************************************)
MaxRawQuarters == 2    \* quarters of the raw collection
MaxRawN == 3           \* cadences of a raw quarter

QuarterCadences == 10  \* cadence numbers of quarter q start at q * QuarterCadences

\* a raw quarter q of n cadences, as io.LightKurve_to_LiteCurve gives it
RawQuarter(q, n) ==
    [LiteCurve([i \in 1..n |-> q * QuarterCadences + i - 1],
               [i \in 1..n |-> FluxUnit * i], [i \in 1..n |-> FluxUnit], AllFalse(n))
        EXCEPT !.quarter = [i \in 1..n |-> q]]

\* LiteCurve.remove_flagged_cadences(qmask): the cadences with qmask True
remove_flagged_cadences(l, qmask) ==
    LET drop == [i \in 1..Len(qmask) |-> ~qmask[i]]
    IN  [time |-> Compress(l.time, drop), flux |-> Compress(l.flux, drop),
         error |-> Compress(l.error, drop), cadno |-> Compress(l.cadno, drop),
         quarter |-> Compress(l.quarter, drop), mask |-> Compress(l.mask, drop)]

\* lines 577-604: what the first pass keeps of a raw quarter, normalized
FirstPassQuarters(raw) ==
    {[time |-> Compress(raw.time, drop), cadno |-> Compress(raw.cadno, drop),
      flux |-> [i \in 1..Len(Compress(raw.flux, drop)) |-> 1],
      error |-> [i \in 1..Len(Compress(raw.error, drop)) |-> 1],
      quarter |-> Compress(raw.quarter, drop), mask |-> Compress(raw.mask, drop)] :
        drop \in {d \in [1..Len(raw.cadno) -> BOOLEAN] : \E i \in 1..Len(d) : ~d[i]}}

\* detrend.stitch of the list
stitch_lite(lcs) ==
    [time |-> np_hstack([k \in 1..Len(lcs) |-> lcs[k].time]),
     flux |-> np_hstack([k \in 1..Len(lcs) |-> lcs[k].flux]),
     error |-> np_hstack([k \in 1..Len(lcs) |-> lcs[k].error]),
     cadno |-> np_hstack([k \in 1..Len(lcs) |-> lcs[k].cadno]),
     quarter |-> np_hstack([k \in 1..Len(lcs) |-> lcs[k].quarter]),
     mask |-> np_hstack([k \in 1..Len(lcs) |-> lcs[k].mask])]

\* np.sum(lc.quarter == q)
count_quarter(l, q) == Cardinality({i \in 1..Len(l.quarter) : l.quarter[i] = q})

\* lines 1712-1738: bad_lc, quarter by quarter, for the flags bq of the
\* quarters with transits
RECURSIVE bad_lc_loop(_, _, _, _)
bad_lc_loop(l, dtype, bq, q) ==
    IF q >= Len(dtype) THEN <<>>
    ELSE (IF dtype[q + 1] = "long_no_transits"
             THEN [i \in 1..count_quarter(l, q) |-> TRUE]
          ELSE IF dtype[q + 1] = "long" THEN bq[q + 1]
          ELSE <<>>) \o bad_lc_loop(l, dtype, bq, q + 1)

\* lc.cadno itself
good_cadno_all(cadno, bad) == {cadno[i] : i \in 1..Len(cadno)}

\* line 1749: lc.cadno[~bad_lc]
good_cadno_of(cadno, bad) == {cadno[i] : i \in {j \in 1..Len(cadno) : ~bad[j]}}

\* lines 1805-1810: the raw quarters of which more than a tenth is good
RECURSIVE reset_loop(_, _)
reset_loop(lite, good) ==
    IF lite = <<>> THEN <<>>
    ELSE LET lcl == Head(lite)
             qmask == [i \in 1..Len(lcl.cadno) |-> lcl.cadno[i] \in good]
             ngood == Cardinality({i \in 1..Len(qmask) : qmask[i]})
         IN  (IF 10 * ngood > Len(qmask)
                 THEN <<remove_flagged_cadences(lcl, qmask)>> ELSE <<>>)
             \o reset_loop(Tail(lite), good)

\* lines 1758-1765 and 1788-1789
second_pass_data(raw, dtype, good) ==
    IF \A q \in 1..Len(dtype) : dtype[q] # "long" THEN <<>>
    ELSE reset_loop(raw, good)

InitReset ==
    /\ pc = "first_detrending"
    /\ \E nq \in 1..MaxRawQuarters :
         lc_raw_collection \in [1..nq -> UNION {{RawQuarter(q, n) : n \in 1..MaxRawN} : q \in 0..(nq - 1)}]
         /\ \A k \in 1..nq : lc_raw_collection[k].quarter[1] = k - 1
    /\ lc_data = <<>>
    /\ all_dtype = <<>>
    /\ good_cadno_lc = {}
    /\ lc = LiteCurve(<<>>, <<>>, <<>>, <<>>)
    /\ GapsIdle /\ MaskIdle /\ FlatIdle /\ LoopIdle /\ RingIdle /\ StitchIdle
    /\ CatIdle /\ PlanIdle /\ SlideIdle /\ QuickIdle /\ OutIdle /\ TailIdle

\* lines 577-604 and 728-770: the first pass over every raw quarter, the
\* stitched light curve and the kind of each of its quarters
FirstDetrending ==
    /\ pc = "first_detrending"
    /\ \E done1 \in [1..Len(lc_raw_collection) ->
                        UNION {FirstPassQuarters(lc_raw_collection[k]) :
                                  k \in 1..Len(lc_raw_collection)}] :
         /\ \A k \in 1..Len(done1) : done1[k] \in FirstPassQuarters(lc_raw_collection[k])
         /\ lc_data' = done1
         /\ lc' = stitch_lite(done1)
    /\ all_dtype' \in [1..Len(lc_raw_collection) -> {"long", "long_no_transits"}]
    /\ pc' = "flag_outliers"
    /\ UNCHANGED <<lc_raw_collection, good_cadno_lc>>
    /\ UNCHANGED <<break_tolerance, jump_tolerance, gaps, maskVars, flatVars, loopVars,
                   ringVars, stitchVars>>
    /\ UNCHANGED <<catVars, planVars, slideVars, quickVars, outVars, tailVars>>

\* lines 1709-1749
FlagBadCadences ==
    /\ pc = "flag_outliers"
    /\ \E bq \in [1..Len(all_dtype) -> UNION {[1..n -> BOOLEAN] : n \in 0..MaxRawN}] :
         /\ \A q \in 1..Len(all_dtype) : Len(bq[q]) = count_quarter(lc, q - 1)
         /\ bad_lc' = bad_lc_loop(lc, all_dtype, bq, 0)
    /\ good_cadno_lc' = good_cadno_of(lc.cadno, bad_lc')
    /\ pc' = "reset"
    /\ UNCHANGED <<lc_raw_collection, lc_data, all_dtype>>
    /\ UNCHANGED <<gapVars, maskVars, flatVars, loopVars, ringVars, stitchVars>>
    /\ UNCHANGED <<catVars, planVars, slideVars, quickVars, t_, f_, res_i, res_q, tailVars>>

\* lines 1756-1810
ResetToRaw ==
    /\ pc = "reset"
    /\ lc_data' = second_pass_data(lc_raw_collection, all_dtype, good_cadno_lc)
    /\ pc' = "second_detrending"
    /\ UNCHANGED <<lc_raw_collection, all_dtype, good_cadno_lc>>
    /\ UNCHANGED <<gapVars, maskVars, flatVars, loopVars, ringVars, stitchVars>>
    /\ UNCHANGED <<catVars, planVars, slideVars, quickVars, outVars, tailVars>>

NextReset == FirstDetrending \/ FlagBadCadences \/ ResetToRaw

SpecReset == InitReset /\ [][NextReset]_vars

\* the place of cadence number c in the light curve of the first pass
PlaceIn(cadno, c) == CHOOSE i \in 1..Len(cadno) : cadno[i] = c

\* C27: every cadence given to the second detrending pass is taken from the
\* raw light curves (its flux is the raw flux, not the flux the first pass
\* normalized), its cadence number survived the first pass and was not
\* flagged as a bad outlier, and its quarter is one with detected transits.
C27_SecondPassData ==
    pc = "second_detrending" =>
        \A k \in 1..Len(lc_data) : \A i \in 1..Len(lc_data[k].cadno) :
            LET c == lc_data[k].cadno[i]
                q == lc_data[k].quarter[i]
            IN  /\ \E j \in 1..Len(lc_raw_collection[q + 1].cadno) :
                      /\ lc_raw_collection[q + 1].cadno[j] = c
                      /\ lc_raw_collection[q + 1].flux[j] = lc_data[k].flux[i]
                      /\ lc_raw_collection[q + 1].error[j] = lc_data[k].error[i]
                /\ \E j \in 1..Len(lc.cadno) : lc.cadno[j] = c
                /\ ~bad_lc[PlaceIn(lc.cadno, c)]
                /\ all_dtype[q + 1] = "long"

\* C27 witness: of two quarters the one without transits is left out; of
\* the other, one cadence was removed by the first pass, one was flagged as
\* a bad outlier and one is given to the second pass
C27_Witness ==
    /\ pc = "second_detrending"
    /\ Len(lc_raw_collection) = 2
    /\ Len(lc_data) = 1
    /\ \E q \in 1..2 :
          /\ all_dtype[q] = "long" /\ all_dtype[3 - q] = "long_no_transits"
          /\ Len(lc_raw_collection[q].cadno) = 3
          /\ Len(lc_data[1].cadno) = 1
          /\ \E c \in {lc_raw_collection[q].cadno[i] : i \in 1..3} :
                /\ \E j \in 1..Len(lc.cadno) : lc.cadno[j] = c
                /\ bad_lc[PlaceIn(lc.cadno, c)]
          /\ \E c \in {lc_raw_collection[q].cadno[i] : i \in 1..3} :
                \A j \in 1..Len(lc.cadno) : lc.cadno[j] # c

\* ---------------------------------------------------------------------------
\* C28: the threshold-widening loop of the cross-correlation fit ends after at
\* most 8 passes; when it ends, at least 3 points are retained or the
\* threshold is 9, and the threshold is never above 9.
C28_LoopBounded ==
    /\ fit_log.iterations <= 8
    /\ fit_log.delta_chisq <= 9
    /\ fit_log.delta_chisq = 1 + fit_log.iterations
    /\ fit_log.iterations > 0 => (fit_log.npts >= 3 \/ fit_log.delta_chisq = 9)

\* C28 witness: a loop that ran all 8 passes and still kept fewer than 3 points
C28_Witness ==
    /\ fit_log.iterations = 8
    /\ fit_log.delta_chisq = 9
    /\ fit_log.npts < 3

\* ---------------------------------------------------------------------------
\* The periodic component of the O-C of each planet
\* (detrend_and_estimate_ttvs.py, lines 1300-1403).
\* Frequencies are whole numbers of 1/FreqUnit per day, false-alarm
\* probabilities are in percent and the time spans are whole days.

MaxMatchPlanets == 3
MaxFreq == 3

FreqUnit == 4

\* fap < 0.1
Significant == 10

FapValues == {5, 10}

SpanValues == {2, 4}

\* lines 1315-1334: the peak of one planet, (nan, 1.0) when none is found
PeakValues ==
    {[freq |-> NaN, fap |-> 100]}
    \cup {[freq |-> f, fap |-> a] : f \in 1..MaxFreq, a \in FapValues}

\* lines 1362-1368: df_ij < df_min, with df_min = 1/span
close_pair(fi, fj, span) ==
    /\ ~isnan(fi)
    /\ ~isnan(fj)
    /\ Abs(fi - fj) * span < FreqUnit

\* line 1364: for j in range(i+1, NPL)
others_of(i, npl) == (i + 1)..npl

\* an entry of omc_freqs is None, written <<>>, or a frequency f, written <<f>>
NoFreq == <<>>

\* lines 1354-1377: the entry of planet i
cross_match(freqs, faps, spans, i) ==
    IF faps[i] < Significant THEN <<freqs[i]>>
    ELSE IF \E j \in others_of(i, Len(freqs)) : close_pair(freqs[i], freqs[j], spans[i])
         THEN <<freqs[i]>>
         ELSE NoFreq

\* lines 1385-1403
omc_per(freq, span) == IF freq # NoFreq THEN <<FreqUnit, freq[1]>> ELSE <<2 * span, 1>>

UpstreamIdle == CatIdle /\ PlanIdle /\ SlideIdle /\ QuickIdle /\ OutIdle /\ ResetIdle

InitMatch ==
    /\ pc = "cross_match"
    /\ \E n \in 1..MaxMatchPlanets :
          \E peaks \in [1..n -> PeakValues] :
             /\ indep_freqs = [i \in 1..n |-> peaks[i].freq]
             /\ indep_faps = [i \in 1..n |-> peaks[i].fap]
             /\ ephem_span \in [1..n -> SpanValues]
    /\ omc_freqs = <<>>
    /\ omc_pers = <<>>
    /\ UpstreamIdle /\ EpochIdle /\ ExpIdle
    /\ DetrendIdle

\* lines 1340-1346
SinglePlanet ==
    /\ pc = "cross_match"
    /\ Len(indep_freqs) = 1
    /\ omc_freqs' = <<IF isnan(indep_freqs[1]) THEN NoFreq ELSE <<indep_freqs[1]>>>>
    /\ pc' = "omc_pers"
    /\ UNCHANGED <<indep_freqs, indep_faps, ephem_span, omc_pers>>
    /\ UNCHANGED <<gapVars, maskVars, flatVars, loopVars, ringVars, stitchVars>>
    /\ UNCHANGED <<catVars, planVars, slideVars, quickVars, outVars, resetVars, epochVars, expVars>>

\* lines 1350-1377: one pass of the loop over the planets
CrossMatch ==
    /\ pc = "cross_match"
    /\ Len(indep_freqs) > 1
    /\ LET i == Len(omc_freqs) + 1
       IN  /\ omc_freqs' = Append(omc_freqs, cross_match(indep_freqs, indep_faps, ephem_span, i))
           /\ pc' = IF i = Len(indep_freqs) THEN "omc_pers" ELSE "cross_match"
    /\ UNCHANGED <<indep_freqs, indep_faps, ephem_span, omc_pers>>
    /\ UNCHANGED <<gapVars, maskVars, flatVars, loopVars, ringVars, stitchVars>>
    /\ UNCHANGED <<catVars, planVars, slideVars, quickVars, outVars, resetVars, epochVars, expVars>>

\* lines 1379-1403: one pass of the loop over the planets
OmcPers ==
    /\ pc = "omc_pers"
    /\ LET npl == Len(omc_pers) + 1
       IN  /\ omc_pers' = Append(omc_pers, omc_per(omc_freqs[npl], ephem_span[npl]))
           /\ pc' = IF npl = Len(indep_freqs) THEN "omc_model" ELSE "omc_pers"
    /\ UNCHANGED <<indep_freqs, indep_faps, ephem_span, omc_freqs>>
    /\ UNCHANGED <<gapVars, maskVars, flatVars, loopVars, ringVars, stitchVars>>
    /\ UNCHANGED <<catVars, planVars, slideVars, quickVars, outVars, resetVars, epochVars, expVars>>

NextMatch == SinglePlanet \/ CrossMatch \/ OmcPers

SpecMatch == InitMatch /\ [][NextMatch]_vars

\* C29: in a system of several planets, a planet whose peak is not
\* significant gets its peak frequency exactly when that frequency is within
\* 1/baseline of the peak frequency of at least one other planet, in whatever
\* order the planets are; otherwise it gets none and its period is twice the
\* baseline.
C29_CrossMatched ==
    (pc = "omc_model" /\ Len(indep_freqs) > 1) =>
        \A i \in 1..Len(indep_freqs) :
            indep_faps[i] >= Significant =>
                IF \E j \in (1..Len(indep_freqs)) \ {i} :
                       close_pair(indep_freqs[i], indep_freqs[j], ephem_span[i])
                THEN omc_freqs[i] = <<indep_freqs[i]>>
                ELSE omc_freqs[i] = NoFreq /\ omc_pers[i] = <<2 * ephem_span[i], 1>>

\* ---------------------------------------------------------------------------
\* The catalog epochs and the fitted Holczer+ 2016 epochs are put in range
\* (detrend_and_estimate_ttvs.py, lines 328-343 and 463-480).
\* Times are whole numbers of a time unit.

MaxStart == 2
MaxEpoch == 6
MaxPeriod == 3
MaxEpochPlanets == 1

\* lines 337-339 without the leading 1 of adj
below_start_floor(epoch, period, time_start) ==
    IF epoch < time_start
    THEN epoch + ((time_start - epoch) \div period) * period
    ELSE epoch

\* lines 337-339 and 474-476
below_start(epoch, period, time_start) ==
    IF epoch < time_start
    THEN epoch + (1 + (time_start - epoch) \div period) * period
    ELSE epoch

\* lines 341-343 and 478-480
above_range(epoch, period, time_start) ==
    IF epoch > time_start + period
    THEN epoch - ((epoch - time_start) \div period) * period
    ELSE epoch

\* lines 337-343 and 474-480: the two tests in turn
put_in_range(epoch, period, time_start) ==
    above_range(below_start(epoch, period, time_start), period, time_start)

InitEpochs ==
    /\ pc = "put_epochs_in_range"
    /\ TIME_START \in 0..MaxStart
    /\ \E n \in 1..MaxEpochPlanets :
          /\ EPOCHS \in [1..n -> (-MaxEpoch)..MaxEpoch]
          /\ PERIODS \in [1..n -> 1..MaxPeriod]
    /\ CATALOG_EPOCHS = EPOCHS
    /\ holczer_pfit = <<>>
    /\ hepoch = 0
    /\ UpstreamIdle /\ MatchIdle /\ ExpIdle
    /\ DetrendIdle

\* lines 336-343: the loop over the planets
PutEpochsInRange ==
    /\ pc = "put_epochs_in_range"
    /\ EPOCHS' = [npl \in 1..Len(EPOCHS) |-> put_in_range(EPOCHS[npl], PERIODS[npl], TIME_START)]
    /\ pc' = "holczer_fit"
    /\ UNCHANGED <<TIME_START, PERIODS, CATALOG_EPOCHS, holczer_pfit, hepoch>>
    /\ UNCHANGED <<gapVars, maskVars, flatVars, loopVars, ringVars, stitchVars>>
    /\ UNCHANGED <<catVars, planVars, slideVars, quickVars, outVars, resetVars, matchVars, expVars>>

\* lines 465-472: the linear ephemeris fitted to the Holczer+ 2016 times of
\* a planet
HolczerFit ==
    /\ pc = "holczer_fit"
    /\ \E e \in (-MaxEpoch)..MaxEpoch, per \in 1..MaxPeriod :
          /\ holczer_pfit' = <<e, per>>
          /\ hepoch' = e
    /\ pc' = "put_fitted_in_range"
    /\ UNCHANGED <<TIME_START, EPOCHS, PERIODS, CATALOG_EPOCHS>>
    /\ UNCHANGED <<gapVars, maskVars, flatVars, loopVars, ringVars, stitchVars>>
    /\ UNCHANGED <<catVars, planVars, slideVars, quickVars, outVars, resetVars, matchVars, expVars>>

\* lines 474-480
PutFittedInRange ==
    /\ pc = "put_fitted_in_range"
    /\ hepoch' = put_in_range(hepoch, holczer_pfit[2], TIME_START)
    /\ pc' = "hephem"
    /\ UNCHANGED <<TIME_START, EPOCHS, PERIODS, CATALOG_EPOCHS, holczer_pfit>>
    /\ UNCHANGED <<gapVars, maskVars, flatVars, loopVars, ringVars, stitchVars>>
    /\ UNCHANGED <<catVars, planVars, slideVars, quickVars, outVars, resetVars, matchVars, expVars>>

NextEpochs == PutEpochsInRange \/ HolczerFit \/ PutFittedInRange

SpecEpochs == InitEpochs /\ [][NextEpochs]_vars

\* C30: for every planet with a positive period and every catalog epoch, the
\* epoch after the adjustment lies between TIME_START and TIME_START + period
\* and differs from the catalog epoch by a whole multiple of the period; the
\* same holds for the epoch of the fitted Holczer ephemeris.
C30_EpochInRange ==
    /\ pc # "put_epochs_in_range" =>
          \A npl \in 1..Len(EPOCHS) :
             PERIODS[npl] > 0 =>
                /\ TIME_START <= EPOCHS[npl]
                /\ EPOCHS[npl] <= TIME_START + PERIODS[npl]
                /\ (EPOCHS[npl] - CATALOG_EPOCHS[npl]) % PERIODS[npl] = 0
    /\ (pc = "hephem" /\ holczer_pfit[2] > 0) =>
          /\ TIME_START <= hepoch
          /\ hepoch <= TIME_START + holczer_pfit[2]
          /\ (hepoch - holczer_pfit[1]) % holczer_pfit[2] = 0

\* C30 witness: a catalog epoch before the start that is a whole number of
\* periods away from it, moved to the upper end of the range
C30_Witness ==
    /\ pc = "hephem"
    /\ \E npl \in 1..Len(EPOCHS) :
          /\ CATALOG_EPOCHS[npl] < TIME_START
          /\ EPOCHS[npl] = TIME_START + PERIODS[npl]
    /\ holczer_pfit[1] > TIME_START + holczer_pfit[2]
    /\ hepoch = TIME_START

\* ---------------------------------------------------------------------------
\* Oversampling factors and exposure times of the quarters, and their use by
\* the flux models of the shape fit and of the independent refit
\* (detrend_and_estimate_ttvs.py, lines 729-803, 891-902, 1159-1238).
\* Python arrays are indexed from 0: entry q of an array is element q + 1 of
\* the sequence that models it.

MaxExpQuarters == 3     \* the script loops over range(18)

\* the short and the long cadence integration times are imported constants;
\* an exposure time is one of them or the 0.0 of np.zeros
scit == "scit"
lcit == "lcit"

DTypes == {"none", "short", "short_no_transits", "long", "long_no_transits"}

\* lines 795-799: oversample[all_dtype == 'short'] = 1, [== 'long'] = 15
oversample_of(dtype) == IF dtype = "short" THEN 1 ELSE IF dtype = "long" THEN 15 ELSE 0

\* lines 796-803
texp_of(dtype) == IF dtype = "short" THEN scit ELSE IF dtype = "long" THEN lcit ELSE "0.0"

\* lines 769-771 and 1194: np.arange(18)[good]
RECURSIVE good_quarters(_, _)
good_quarters(dtype, q) ==
    IF q >= Len(dtype) THEN <<>>
    ELSE (IF dtype[q + 1] \in {"short", "long"} THEN <<q>> ELSE <<>>)
         \o good_quarters(dtype, q + 1)

\* lines 891-894 and 1227-1230: the arguments of get_light_curve for entry j
\* of the quarters
light_curve_args(qs, j, over, tex) ==
    [quarter |-> qs[j + 1], oversample |-> over[j + 1], texp |-> tex[j + 1]]

\* lines 891-902 and 1227-1238: for j, q in enumerate(quarters)
flux_models(qs, over, tex) ==
    [k \in 1..Len(qs) |-> light_curve_args(qs, k - 1, over, tex)]

\* lines 1164-1192: the quarters of the refit keep their cadence type or
\* have too few cadences near the refit transits
MapDTypes(dtype) ==
    {m \in [1..Len(dtype) -> DTypes] :
        \A k \in 1..Len(dtype) :
           \/ m[k] = dtype[k]
           \/ dtype[k] = "short" /\ m[k] = "short_no_transits"
           \/ dtype[k] = "long" /\ m[k] = "long_no_transits"}

InitExposure ==
    /\ pc = "set_exposure"
    /\ all_dtype \in [1..MaxExpQuarters -> DTypes]
    /\ lc_raw_collection = <<>>
    /\ lc_data = <<>>
    /\ good_cadno_lc = {}
    /\ ExpIdle
    /\ CatIdle /\ PlanIdle /\ SlideIdle /\ QuickIdle /\ OutIdle /\ MatchIdle /\ EpochIdle
    /\ DetrendIdle

\* lines 794-803
SetExposure ==
    /\ pc = "set_exposure"
    /\ oversample' = [k \in 1..Len(all_dtype) |-> oversample_of(all_dtype[k])]
    /\ texp' = [k \in 1..Len(all_dtype) |-> texp_of(all_dtype[k])]
    /\ pc' = "shape_model"
    /\ UNCHANGED <<map_dtype, shape_model, indep_model, resetVars>>
    /\ UNCHANGED <<gapVars, maskVars, flatVars, loopVars, ringVars, stitchVars>>
    /\ UNCHANGED <<catVars, planVars, slideVars, quickVars, outVars, matchVars, epochVars>>

\* lines 885-902
ShapeModel ==
    /\ pc = "shape_model"
    /\ shape_model' = flux_models(good_quarters(all_dtype, 0), oversample, texp)
    /\ pc' = "map_data"
    /\ UNCHANGED <<map_dtype, oversample, texp, indep_model, resetVars>>
    /\ UNCHANGED <<gapVars, maskVars, flatVars, loopVars, ringVars, stitchVars>>
    /\ UNCHANGED <<catVars, planVars, slideVars, quickVars, outVars, matchVars, epochVars>>

\* lines 1159-1194
MapData ==
    /\ pc = "map_data"
    /\ map_dtype' \in MapDTypes(all_dtype)
    /\ pc' = "indep_model"
    /\ UNCHANGED <<oversample, texp, shape_model, indep_model, resetVars>>
    /\ UNCHANGED <<gapVars, maskVars, flatVars, loopVars, ringVars, stitchVars>>
    /\ UNCHANGED <<catVars, planVars, slideVars, quickVars, outVars, matchVars, epochVars>>

\* lines 1221-1238
IndepModel ==
    /\ pc = "indep_model"
    /\ indep_model' = flux_models(good_quarters(map_dtype, 0), oversample, texp)
    /\ pc' = "indep_fit"
    /\ UNCHANGED <<map_dtype, oversample, texp, shape_model, resetVars>>
    /\ UNCHANGED <<gapVars, maskVars, flatVars, loopVars, ringVars, stitchVars>>
    /\ UNCHANGED <<catVars, planVars, slideVars, quickVars, outVars, matchVars, epochVars>>

NextExposure == SetExposure \/ ShapeModel \/ MapData \/ IndepModel

SpecExposure == InitExposure /\ [][NextExposure]_vars

\* C21: in the shape fit and in the independent refit, the flux model of
\* every fitted quarter q uses the oversampling factor and the exposure time
\* of the cadence type of quarter q (1 and the short cadence exposure, 15 and
\* the long cadence exposure), also when the quarters with data do not start
\* at quarter 0 or skip quarters.
C21_QuarterExposure ==
    \A model \in {shape_model, indep_model} :
       \A j \in 1..Len(model) :
          LET dtype == all_dtype[model[j].quarter + 1]
          IN  /\ dtype = "short" => model[j].oversample = 1 /\ model[j].texp = scit
              /\ dtype = "long" => model[j].oversample = 15 /\ model[j].texp = lcit

====
